---- MODULE Spec2Model ----
(***************************************************************************)
(* Verification model of the Justwork resume-analysis backend:            *)
(*   backend/keyword_extractor.py  result cache, lazy model load,         *)
(*                                 post-processing of the model output    *)
(*   backend/data_loader.py        load_resumes                           *)
(*   backend/app.py                the request handlers and the process-  *)
(*                                 wide vector_store / chain slots        *)
(*   backend/llm_chain.py          build_chain, assess_candidate          *)
(*   backend/HR_part/Job_Database.py  JobDatabase and its table jobs      *)
(*                                                                         *)
(* Strings are sequences of one-character strings.  Three multi-character *)
(* lexemes of the program are written as one symbol each:                 *)
(*   "k"  a JSON object key with its colon   ("k":)                       *)
(*   "n"  the JSON literal null                                           *)
(*   "O"  the marker <|output|>     "E"  the marker <|end-output|>        *)
(* None of them contains a brace, a bracket, a comma or white space, so   *)
(* brace matching, strip() and replace() act on them as on one character. *)
(***************************************************************************)
EXTENDS Integers, Sequences, FiniteSets, TLC

\* ------------------------------------------------------------ bounds ----
\* Capacity of result_cache.  The program sets 100 (keyword_extractor.py:20);
\* cleanup_cache is parametric in it and the model runs it scaled down.
MAX_CACHE_SIZE == 2
\* Longest raw model output enumerated for the post-processing pipeline.
MaxOutLen == 4
\* calls_since_clear stops counting here.
MaxSince == 2
\* Most files in one upload request.
MaxFiles == 2
\* Character budget of the resume text in the prompt.  The program sets 2500
\* (keyword_extractor.py:157); the truncation is parametric in it.
MAX_TEXT_LENGTH == 5
\* Most FAISS indexes built in one run of the server.
MaxBuilds == 2
\* Longest text argument enumerated for the text preparation.
MaxTextLen == 8
\* rows of table jobs
MaxRows == 2

\* ------------------------------------------------ string primitives ----
None == <<"None">>

IsSpace(c) == c = " " \/ c = "\n"

RECURSIVE LStrip(_)
LStrip(s) == IF s # <<>> /\ IsSpace(Head(s)) THEN LStrip(Tail(s)) ELSE s

RECURSIVE RStrip(_)
RStrip(s) ==
    IF s # <<>> /\ IsSpace(s[Len(s)]) THEN RStrip(SubSeq(s, 1, Len(s) - 1)) ELSE s

\* str.strip()
Strip(s) == RStrip(LStrip(s))

\* c in s
Contains(s, c) == \E i \in 1..Len(s) : s[i] = c

\* s.find(c) + 1 : position of the first c at or after from, 0 when there is none
RECURSIVE FindFrom(_, _, _)
FindFrom(s, c, from) ==
    IF from > Len(s) THEN 0
    ELSE IF s[from] = c THEN from
    ELSE FindFrom(s, c, from + 1)

\* s.split(c)[0]
SplitFirst(s, c) ==
    LET p == FindFrom(s, c, 1)
    IN  IF p = 0 THEN s ELSE SubSeq(s, 1, p - 1)

\* s.split(c)[1], for s that contains c
SplitSecond(s, c) ==
    LET p == FindFrom(s, c, 1)
        q == FindFrom(s, c, p + 1)
    IN  IF q = 0 THEN SubSeq(s, p + 1, Len(s)) ELSE SubSeq(s, p + 1, q - 1)

\* s.replace(a + b, b) : left to right, non-overlapping, one pass
RECURSIVE ReplacePair(_, _, _)
ReplacePair(s, a, b) ==
    IF Len(s) < 2 THEN s
    ELSE IF s[1] = a /\ s[2] = b THEN <<b>> \o ReplacePair(SubSeq(s, 3, Len(s)), a, b)
    ELSE <<s[1]>> \o ReplacePair(Tail(s), a, b)

RECURSIVE Spaces(_)
Spaces(n) == IF n = 0 THEN <<>> ELSE <<" ">> \o Spaces(n - 1)

\* All strings over alphabet of length at most n
StringsUpTo(alphabet, n) == UNION {[1..m -> alphabet] : m \in 0..n}

\* ------------------------------------------------------------- JSON ----
\* Parsed values: null, a dict (one possible key, so zero or one member:
\* a repeated key keeps its last value), a list.
JNull == <<"null">>
JObj(members) == <<"obj", members>>
JArr(elements) == <<"arr", elements>>

IsDict(v) == v[1] = "obj"

ParseFail == [ok |-> FALSE, val |-> JNull, next |-> 0]
ParseOk(v, n) == [ok |-> TRUE, val |-> v, next |-> n]

RECURSIVE ParseValue(_, _)
RECURSIVE ParseMembers(_, _)
RECURSIVE ParseElements(_, _, _)

\* value starting at token i
ParseValue(t, i) ==
    IF i > Len(t) THEN ParseFail
    ELSE IF t[i] = "n" THEN ParseOk(JNull, i + 1)
    ELSE IF t[i] = "{" THEN
        IF i + 1 <= Len(t) /\ t[i + 1] = "}" THEN ParseOk(JObj(<<>>), i + 2)
        ELSE ParseMembers(t, i + 1)
    ELSE IF t[i] = "[" THEN
        IF i + 1 <= Len(t) /\ t[i + 1] = "]" THEN ParseOk(JArr(<<>>), i + 2)
        ELSE ParseElements(t, i + 1, <<>>)
    ELSE ParseFail

\* members of an object from token i up to and including the closing brace
ParseMembers(t, i) ==
    IF i > Len(t) \/ t[i] # "k" THEN ParseFail
    ELSE LET v == ParseValue(t, i + 1)
         IN  IF ~v.ok \/ v.next > Len(t) THEN ParseFail
             ELSE IF t[v.next] = "}" THEN ParseOk(JObj(<<v.val>>), v.next + 1)
             ELSE IF t[v.next] = "," THEN ParseMembers(t, v.next + 1)
             ELSE ParseFail

\* elements of a list from token i up to and including the closing bracket
ParseElements(t, i, acc) ==
    LET v == ParseValue(t, i)
    IN  IF ~v.ok \/ v.next > Len(t) THEN ParseFail
        ELSE IF t[v.next] = "]" THEN ParseOk(JArr(Append(acc, v.val)), v.next + 1)
        ELSE IF t[v.next] = "," THEN ParseElements(t, v.next + 1, Append(acc, v.val))
        ELSE ParseFail

\* white space is allowed between any two tokens and around the document
JsonTokens(s) == SelectSeq(s, LAMBDA c : ~IsSpace(c))

\* json.loads(s): ok = FALSE stands for json.JSONDecodeError
json_loads(s) ==
    LET t == JsonTokens(s)
        r == ParseValue(t, 1)
    IN  IF r.ok /\ r.next = Len(t) + 1 THEN [ok |-> TRUE, val |-> r.val]
        ELSE [ok |-> FALSE, val |-> JNull]

IsJson(s) == json_loads(s).ok

RECURSIVE DumpValue(_, _)
RECURSIVE DumpElements(_, _, _)

\* json.dumps(v, indent=2) at nesting depth d
DumpValue(v, d) ==
    IF v[1] = "null" THEN <<"n">>
    ELSE IF v[1] = "obj" THEN
        IF v[2] = <<>> THEN <<"{", "}">>
        ELSE <<"{", "\n">> \o Spaces(2 * (d + 1)) \o <<"k", " ">>
             \o DumpValue(v[2][1], d + 1) \o <<"\n">> \o Spaces(2 * d) \o <<"}">>
    ELSE
        IF v[2] = <<>> THEN <<"[", "]">>
        ELSE <<"[", "\n">> \o DumpElements(v[2], 1, d + 1)
             \o <<"\n">> \o Spaces(2 * d) \o <<"]">>

DumpElements(es, i, d) ==
    Spaces(2 * d) \o DumpValue(es[i], d)
    \o (IF i = Len(es) THEN <<>> ELSE <<",", "\n">> \o DumpElements(es, i + 1, d))

json_dumps(v) == DumpValue(v, 0)

\* ------------------------------------------- keyword_extractor.py ----
\* Input triples of predict_keywords.  The argument examples is None or a
\* list of strings: a record that says which, with the list.
NoExamples == [is_none |-> TRUE, list |-> <<>>]
ExamplesList(xs) == [is_none |-> FALSE, list |-> xs]

\* examples or []
ExamplesOrEmpty(examples) == IF examples.is_none THEN <<>> ELSE examples.list

RECURSIVE ReprItems(_, _)
ReprItems(xs, i) ==
    IF i > Len(xs) THEN <<>>
    ELSE <<"'">> \o xs[i] \o <<"'">>
         \o (IF i = Len(xs) THEN <<>> ELSE <<",", " ">>) \o ReprItems(xs, i + 1)

\* str(list_of_str), as the f-string formats `examples or []`
ListRepr(xs) == <<"[">> \o ReprItems(xs, 1) \o <<"]">>

\* hashlib.md5(...).hexdigest(): no two of the bounded inputs share a digest,
\* so the digest is represented by the bytes it was computed from.
Md5Hex(bytes) == bytes

get_cache_key(text, schema, examples) ==
    Md5Hex(text \o <<"|">> \o schema \o <<"|">> \o ListRepr(ExamplesOrEmpty(examples)))

\* result_cache is a dict: a sequence of entries in insertion order.
\* Field by is a history field: the input triple whose call stored the entry.
CacheIndex(cache, key) ==
    IF \E i \in 1..Len(cache) : cache[i].key = key
    THEN CHOOSE i \in 1..Len(cache) : cache[i].key = key
    ELSE 0

\* result_cache[key] = value : a new key goes last, a present key keeps its place
DictSet(cache, key, value, by) ==
    LET i == CacheIndex(cache, key)
        e == [key |-> key, value |-> value, by |-> by]
    IN  IF i = 0 THEN Append(cache, e) ELSE [cache EXCEPT ![i] = e]

\* mutant: the slice keeps one entry too many
cleanup_cache_off_by_one(cache) ==
    IF Len(cache) > MAX_CACHE_SIZE + 1
    THEN SubSeq(cache, Len(cache) - MAX_CACHE_SIZE, Len(cache))
    ELSE cache

\* mutant: the slice keeps the oldest entries and drops the newest
cleanup_cache_keep_oldest(cache) ==
    IF Len(cache) > MAX_CACHE_SIZE
    THEN SubSeq(cache, 1, MAX_CACHE_SIZE)
    ELSE cache

cleanup_cache(cache) ==
    IF Len(cache) > MAX_CACHE_SIZE
    THEN \* keys_to_remove = keys[:-MAX_CACHE_SIZE]; del each
         SubSeq(cache, Len(cache) - MAX_CACHE_SIZE + 1, Len(cache))
    ELSE cache

\* mutant: the clear acts on a local copy and leaves the global dict alone
clear_cache_result_noop(cache) == cache

clear_cache_result(cache) == <<>>

\* Outcomes of the from_pretrained calls and of the set-up that follows them.
LoadOutcomes == {"ok", "model_fails", "tokenizer_fails", "setup_fails"}

\* load_model_if_needed, run alone: m and t are the globals model and
\* tokenizer ("None" or "loaded"); the result carries their new values,
\* whether the function raised and how many loads it started.
load_model_if_needed(m, t, outcome) ==
    IF m # "None" /\ t # "None"
    THEN [model |-> m, tokenizer |-> t, raised |-> FALSE, loads |-> 0]
    ELSE CASE outcome = "ok" ->
                [model |-> "loaded", tokenizer |-> "loaded", raised |-> FALSE, loads |-> 1]
           [] outcome = "model_fails" ->
                [model |-> m, tokenizer |-> t, raised |-> TRUE, loads |-> 1]
           [] outcome = "tokenizer_fails" ->
                [model |-> "loaded", tokenizer |-> t, raised |-> TRUE, loads |-> 1]
           [] outcome = "setup_fails" ->
                [model |-> "loaded", tokenizer |-> "loaded", raised |-> TRUE, loads |-> 1]

\* schema = json.dumps(json.loads(schema), ...) when the schema parses
clean_schema(schema) ==
    LET p == json_loads(schema)
    IN  IF p.ok THEN json_dumps(p.val) ELSE schema

\* index of the brace that closes the one at i, 0 when the scan runs off the end
RECURSIVE ScanBraces(_, _, _)
ScanBraces(s, i, brace_count) ==
    IF i > Len(s) THEN 0
    ELSE IF s[i] = "{" THEN ScanBraces(s, i + 1, brace_count + 1)
    ELSE IF s[i] = "}" THEN
        IF brace_count - 1 = 0 THEN i ELSE ScanBraces(s, i + 1, brace_count - 1)
    ELSE ScanBraces(s, i + 1, brace_count)

\* mutant: the brace branch runs to the last "}" instead of the matching one
extract_result_greedy(output) ==
    Strip(
        IF Contains(output, "O") THEN
            IF Contains(output, "E")
            THEN Strip(SplitFirst(SplitSecond(output, "O"), "E"))
            ELSE Strip(SplitSecond(output, "O"))
        ELSE
            LET start_idx == FindFrom(output, "{", 1)
                last_idx  == IF Contains(output, "}")
                             THEN CHOOSE j \in 1..Len(output) :
                                      output[j] = "}" /\ \A n \in (j + 1)..Len(output) : output[n] # "}"
                             ELSE 0
            IN  IF start_idx # 0 /\ ScanBraces(output, start_idx, 0) # 0
                THEN SubSeq(output, start_idx, last_idx)
                ELSE Strip(output))

\* lines 240-277, "Handle different output formats": the candidate result,
\* after the final result.strip()
extract_result(output) ==
    Strip(
        IF Contains(output, "O") THEN
            IF Contains(output, "E")
            THEN Strip(SplitFirst(SplitSecond(output, "O"), "E"))
            ELSE Strip(SplitSecond(output, "O"))
        ELSE
            LET start_idx == FindFrom(output, "{", 1)
                end_idx   == ScanBraces(output, start_idx, 0)
            IN  IF start_idx # 0 /\ end_idx # 0
                THEN SubSeq(output, start_idx, end_idx)
                ELSE Strip(output))

\* fixed_result = result.replace(',}', '}').replace(',]', ']')
fix_trailing_commas(result) == ReplacePair(ReplacePair(result, ",", "}"), ",", "]")

\* mutant: a failed parse goes straight to the schema shape, without the repair
validate_and_fix_skip_repair(result, schema) ==
    LET parsed == json_loads(result)
        empty  == json_loads(schema)
    IN  IF parsed.ok THEN
            IF IsDict(parsed.val)
            THEN [status |-> "returned", result |-> json_dumps(parsed.val), steps |-> <<"parse">>]
            ELSE [status |-> "raised", result |-> None, steps |-> <<"parse">>]
        ELSE IF empty.ok THEN
            [status |-> "returned", result |-> json_dumps(empty.val),
             steps |-> <<"parse", "schema">>]
        ELSE [status |-> "raised", result |-> None, steps |-> <<"parse", "schema">>]

\* mutant: the last resort returns the text as extracted
validate_and_fix_raw(result, schema) ==
    LET parsed == json_loads(result)
        fixed  == json_loads(fix_trailing_commas(result))
    IN  IF parsed.ok THEN
            IF IsDict(parsed.val)
            THEN [status |-> "returned", result |-> json_dumps(parsed.val), steps |-> <<"parse">>]
            ELSE [status |-> "raised", result |-> None, steps |-> <<"parse">>]
        ELSE IF fixed.ok THEN
            [status |-> "returned", result |-> json_dumps(fixed.val), steps |-> <<"parse", "repair">>]
        ELSE [status |-> "returned", result |-> result,
              steps |-> <<"parse", "repair", "schema">>]

\* "Validate and fix JSON": steps lists the stages entered, in order.
\* raised covers the exceptions that leave predict_keywords: the .items()
\* loop on a parsed value that is no dict, json.loads(schema) in the last resort.
validate_and_fix(result, schema) ==
    LET parsed == json_loads(result)
        fixed  == json_loads(fix_trailing_commas(result))
        empty  == json_loads(schema)
    IN  IF parsed.ok THEN
            IF IsDict(parsed.val)
            THEN [status |-> "returned", result |-> json_dumps(parsed.val), steps |-> <<"parse">>]
            ELSE [status |-> "raised", result |-> None, steps |-> <<"parse">>]
        ELSE IF fixed.ok THEN
            [status |-> "returned", result |-> json_dumps(fixed.val), steps |-> <<"parse", "repair">>]
        ELSE IF empty.ok THEN
            [status |-> "returned", result |-> json_dumps(empty.val),
             steps |-> <<"parse", "repair", "schema">>]
        ELSE [status |-> "raised", result |-> None, steps |-> <<"parse", "repair", "schema">>]

\* Steps 5 of predict_keywords: from the decoded output to the result
postprocess(output, schema) ==
    LET r == validate_and_fix(extract_result(output), clean_schema(schema))
    IN  [status |-> r.status, result |-> r.result,
         steps |-> <<"extract">> \o r.steps]

\* text.split('. ')
RECURSIVE SplitSentences(_, _)
SplitSentences(s, cur) ==
    IF s = <<>> THEN <<cur>>
    ELSE IF Len(s) >= 2 /\ s[1] = "." /\ s[2] = " "
    THEN <<cur>> \o SplitSentences(SubSeq(s, 3, Len(s)), <<>>)
    ELSE SplitSentences(Tail(s), Append(cur, s[1]))

\* mutant: the loop stops after the first sentence
TakeSentences_first_only(sentences, i, truncated_text) ==
    IF Len(sentences[1]) + 2 <= MAX_TEXT_LENGTH
    THEN sentences[1] \o <<".", " ">>
    ELSE <<>>

\* lines 161-166: append whole sentences while the budget holds, stop at the
\* first one that does not fit
RECURSIVE TakeSentences(_, _, _)
TakeSentences(sentences, i, truncated_text) ==
    IF i > Len(sentences) THEN truncated_text
    ELSE IF Len(truncated_text) + Len(sentences[i]) + 2 <= MAX_TEXT_LENGTH
    THEN TakeSentences(sentences, i + 1, truncated_text \o sentences[i] \o <<".", " ">>)
    ELSE truncated_text

\* mutant: strip('. '), which also drops full stops and spaces at the start
RECURSIVE StripDotSpace(_)
StripDotSpace(s) ==
    IF s # <<>> /\ (s[1] = "." \/ s[1] = " ") THEN StripDotSpace(Tail(s))
    ELSE IF s # <<>> /\ (s[Len(s)] = "." \/ s[Len(s)] = " ")
    THEN StripDotSpace(SubSeq(s, 1, Len(s) - 1))
    ELSE s

\* str.rstrip('. ')
RECURSIVE RStripDotSpace(_)
RStripDotSpace(s) ==
    IF s # <<>> /\ (s[Len(s)] = "." \/ s[Len(s)] = " ")
    THEN RStripDotSpace(SubSeq(s, 1, Len(s) - 1))
    ELSE s

\* mutant: the simple truncation keeps the whole text
truncate_text_no_cut(text) ==
    IF Len(text) > MAX_TEXT_LENGTH
    THEN LET truncated_text == TakeSentences(SplitSentences(text, <<>>), 1, <<>>)
         IN  IF 10 * Len(truncated_text) < 8 * MAX_TEXT_LENGTH
             THEN text
             ELSE RStripDotSpace(truncated_text)
    ELSE text

\* lines 156-173, "Better text length management".
\* len(truncated_text) < MAX_TEXT_LENGTH * 0.8 is compared in tenths.
truncate_text(text) ==
    IF Len(text) > MAX_TEXT_LENGTH
    THEN LET truncated_text == TakeSentences(SplitSentences(text, <<>>), 1, <<>>)
         IN  IF 10 * Len(truncated_text) < 8 * MAX_TEXT_LENGTH
             THEN SubSeq(text, 1, MAX_TEXT_LENGTH)
             ELSE RStripDotSpace(truncated_text)
    ELSE text

\* ------------------------------------------------------------ state ----
VARIABLES
    \* keyword_extractor.py globals
    result_cache,       \* dict, as a sequence of [key, value, by] in insertion order
    model,              \* "None" or "loaded"
    tokenizer,          \* "None" or "loaded"
    model_loading,      \* _model_loading
    \* history of the extractor's callers
    last,               \* the latest predict_keywords call and what it did
    last_op,            \* the operation that ran latest
    calls_since_clear,  \* predict_keywords calls since the latest clear_cache
                        \* (-1 before the first clear_cache, stops at MaxSince)
    \* one run of the post-processing pipeline (step 5 of predict_keywords)
    output,             \* the decoded model output
    schema_arg,         \* the schema argument of the call
    result,             \* the candidate result after extraction
    outcome,            \* what validate-and-fix made of it
    pc,                 \* position of the pipeline or key run
    \* two get_cache_key evaluations
    key_in,             \* <<triple, triple>>
    key_out,            \* <<key, key>>
    \* app.py and data_loader.py
    data_folder,        \* names of the files in DATA_FOLDER
    env,                \* the environment variable DATA_FOLDER, and the files in the
                        \* folder of config.json when the variable names another one
    vector_store,       \* global vector_store: None or the index
    chain,              \* global chain: None or the chain
    sidecar,            \* the file vector_store.json
    response,           \* the response to the latest HTTP request
    builds,             \* number of FAISS indexes built so far
    load_call,          \* the load_resumes call of the latest request, if it made one
    assess_call,        \* the assess_candidate call of the latest request, if it made one
    \* the text preparation of one predict_keywords call (lines 152-175)
    text_arg,           \* the text argument of the call
    prompt_text,        \* the text after truncation, then as placed in the prompt
    \* requests and calls that run in parallel
    gc,                 \* a get_chain dependency call running in a worker thread
    up,                 \* an upload or regenerate request in progress
    writers,            \* two predict_keywords calls in their store-and-cleanup steps
    loaders,            \* callers of load_model_if_needed, each at its statement
    \* HR_part/Job_Database.py
    job,                \* JobDatabase.job
    jobs,               \* the rows of table jobs, in insertion order
    db_call             \* the latest JobDatabase call and how it ended

extractor_vars ==
    <<result_cache, model, tokenizer, model_loading, last, last_op, calls_since_clear>>
pipeline_vars == <<output, schema_arg, result, outcome, pc>>
key_vars == <<key_in, key_out>>
app_vars ==
    <<data_folder, env, vector_store, chain, sidecar, response, builds, load_call,
      assess_call>>
prompt_vars == <<text_arg, prompt_text>>
thread_vars == <<gc, up, writers, loaders>>
db_vars == <<job, jobs, db_call>>
vars == <<extractor_vars, pipeline_vars, key_vars, app_vars, prompt_vars, thread_vars,
          db_vars>>

NoCall ==
    [text |-> <<>>, schema |-> <<>>, examples |-> NoExamples, hit |-> FALSE,
     status |-> "none", failed_at |-> "", result |-> None, loads |-> 0, gens |-> 0,
     steps |-> <<>>, nth |-> 0, cached_before |-> 0]
NoOutcome == [status |-> "none", result |-> None, steps |-> <<>>]
\* status is the status the caller receives; first_raised is the status of
\* the HTTPException that the request raised first, 0 when it raised none;
\* saved are the names under which an upload wrote its files.
NoResponse ==
    [endpoint |-> "none", status |-> 0, first_raised |-> 0, files_processed |-> 0,
     vector_store_created |-> FALSE, saved |-> {}]
\* the FAISS index built over the chunks of the PDFs in docs, or None.
\* id tells apart two index objects built over the same chunks.
NoIndex == [is_none |-> TRUE, docs |-> {}, id |-> 0]
Index(docs, id) == [is_none |-> FALSE, docs |-> docs, id |-> id]
\* no load_resumes call
NoLoad ==
    [called |-> FALSE, pdf_files |-> {}, unreadable |-> {}, raised |-> FALSE,
     failed_at |-> "", store |-> NoIndex]
\* the chain built over an index, or None
NoChain == [is_none |-> TRUE, over |-> NoIndex]
Chain(over) == [is_none |-> FALSE, over |-> over]
\* no assess_candidate call.  runs counts the chain.run invocations, failed
\* says whether the chain failed, over is the index behind the chain used.
NoAssess ==
    [called |-> FALSE, runs |-> 0, failed |-> FALSE, raised |-> FALSE, result |-> None,
     over |-> NoIndex]
\* no get_chain call in progress.  vs and built are the locals of the call,
\* ret is what it returns; stale_use says whether the request that depended
\* on the call used a chain over another index than the current one.
GcIdle ==
    [pc |-> "idle", vs |-> NoIndex, built |-> NoChain, ret |-> NoChain,
     stale_use |-> FALSE]
\* no upload or regenerate request in progress.  raced is a history field:
\* such a request and a get_chain call were in progress at the same time.
UpIdle == [pc |-> "idle", kind |-> "none", raced |-> FALSE]
\* vector_store.json with the chunk records of the PDFs in docs, or no file
NoSidecar == [exists |-> FALSE, docs |-> {}]
Sidecar(docs) == [exists |-> TRUE, docs |-> docs]

ExtractorIdle ==
    /\ result_cache = <<>>
    /\ model = "None"
    /\ tokenizer = "None"
    /\ model_loading = FALSE
    /\ last = NoCall
    /\ last_op = "none"
    /\ calls_since_clear = -1

PipelineIdle ==
    /\ output = <<>>
    /\ schema_arg = <<>>
    /\ result = None
    /\ outcome = NoOutcome
    /\ pc = "idle"

KeyIdle ==
    /\ key_in = <<>>
    /\ key_out = <<>>

\* app.py line 61 takes DATA_FOLDER from the environment, then from
\* config.json; data_loader.py line 20 takes DATA_FOLDER_PATH from config.json
\* alone.  Unset, or set to the folder of config.json, both name one folder.
NoEnv == [DATA_FOLDER_set |-> FALSE, config_folder |-> {}]
Env(config_folder) == [DATA_FOLDER_set |-> TRUE, config_folder |-> config_folder]

AppIdle ==
    /\ data_folder = {}
    /\ env = NoEnv
    /\ vector_store = NoIndex
    /\ chain = NoChain
    /\ sidecar = NoSidecar
    /\ response = NoResponse
    /\ builds = 0
    /\ load_call = NoLoad
    /\ assess_call = NoAssess

PromptIdle ==
    /\ text_arg = <<>>
    /\ prompt_text = None

ThreadsIdle ==
    /\ gc = GcIdle
    /\ up = UpIdle
    /\ writers = <<>>
    /\ loaders = <<>>

NoDbCall == [op |-> "none", raised |-> ""]
\* self.job: None, or the dict as a function from its keys
NoJob == [is_none |-> TRUE, data |-> <<>>]
Job(data) == [is_none |-> FALSE, data |-> data]

DbIdle ==
    /\ job = NoJob
    /\ jobs = <<>>
    /\ db_call = NoDbCall

\* ------------------------------- the post-processing pipeline alone ----
OutAlphabet == {"{", "}", "[", "]", ",", "k", "n", " ", "O", "E"}
\* a schema that parses and one that does not
PipelineSchemas == {<<"{", "}">>, <<"a", "|", "{", "}">>}

InitPipeline ==
    /\ ExtractorIdle /\ KeyIdle /\ AppIdle /\ PromptIdle /\ ThreadsIdle /\ DbIdle
    /\ output \in StringsUpTo(OutAlphabet, MaxOutLen)
    /\ schema_arg \in PipelineSchemas
    /\ result = None
    /\ outcome = NoOutcome
    /\ pc = "generated"

\* lines 240-277: choose the candidate result
ExtractStep ==
    /\ pc = "generated"
    /\ result' = extract_result(output)
    /\ pc' = "extracted"
    /\ UNCHANGED <<output, schema_arg, outcome, extractor_vars, key_vars, app_vars,
                   prompt_vars, thread_vars, db_vars>>

\* lines 279-312: validate and fix
ValidateStep ==
    /\ pc = "extracted"
    /\ outcome' = validate_and_fix(result, clean_schema(schema_arg))
    /\ pc' = outcome'.status
    /\ UNCHANGED <<output, schema_arg, result, extractor_vars, key_vars, app_vars,
                   prompt_vars, thread_vars, db_vars>>

NextPipeline == ExtractStep \/ ValidateStep

SpecPipeline == InitPipeline /\ [][NextPipeline]_vars

\* ------------------------------------------- get_cache_key alone ----
Texts == {<<"a">>, <<"a", "|", "a">>}
Schemas == {<<"{", "}">>, <<"a", "|", "{", "}">>}
ExampleLists == {NoExamples, ExamplesList(<<>>), ExamplesList(<< <<"{", "}">> >>)}
Triples == [text : Texts, schema : Schemas, examples : ExampleLists]

InitKey ==
    /\ ExtractorIdle /\ AppIdle /\ PromptIdle /\ ThreadsIdle /\ DbIdle
    /\ output = <<>> /\ schema_arg = <<>> /\ result = None /\ outcome = NoOutcome
    /\ key_in \in Triples \X Triples
    /\ key_out = <<>>
    /\ pc = "args"

ComputeKeys ==
    /\ pc = "args"
    /\ key_out' = <<get_cache_key(key_in[1].text, key_in[1].schema, key_in[1].examples),
                    get_cache_key(key_in[2].text, key_in[2].schema, key_in[2].examples)>>
    /\ pc' = "keyed"
    /\ UNCHANGED <<key_in, output, schema_arg, result, outcome, extractor_vars, app_vars,
                   prompt_vars, thread_vars, db_vars>>

NextKey == ComputeKeys

SpecKey == InitKey /\ [][NextKey]_vars

\* ------------------------------- the text preparation alone ----
TextAlphabet == {"a", ".", " "}

InitPrompt ==
    /\ ExtractorIdle /\ KeyIdle /\ AppIdle /\ ThreadsIdle /\ DbIdle
    /\ output = <<>> /\ schema_arg = <<>> /\ result = None /\ outcome = NoOutcome
    /\ text_arg \in StringsUpTo(TextAlphabet, MaxTextLen)
    /\ prompt_text = None
    /\ pc = "text"

\* lines 156-173: cut the text down to the budget
TruncateStep ==
    /\ pc = "text"
    /\ prompt_text' = truncate_text(text_arg)
    /\ pc' = "truncated"
    /\ UNCHANGED <<text_arg, output, schema_arg, result, outcome, extractor_vars, key_vars,
                   app_vars, thread_vars, db_vars>>

\* line 175: input_llm += "### Text:\n" + text.strip() + ...
PlaceStep ==
    /\ pc = "truncated"
    /\ prompt_text' = Strip(prompt_text)
    /\ pc' = "placed"
    /\ UNCHANGED <<text_arg, output, schema_arg, result, outcome, extractor_vars, key_vars,
                   app_vars, thread_vars, db_vars>>

NextPrompt == TruncateStep \/ PlaceStep

SpecPrompt == InitPrompt /\ [][NextPrompt]_vars

\* ------------------------------------- the extractor, calls in sequence ----
\* model.generate raising, and the decoded outputs the calls may get:
\* an object, a valid document that is no object, text that is no JSON.
GenerationFails == <<"raise">>
Outputs == {<<"{", "k", "n", "}">>, <<"n">>, <<"k">>}

\* mutant: an output that does not parse is generated a second time
run_generation_retry(generated) ==
    [raised |-> generated = GenerationFails, output |-> generated,
     gens |-> IF generated = GenerationFails \/ IsJson(generated) THEN 1 ELSE 2]

\* lines 198-233: one model.generate call, which may raise
run_generation(generated) ==
    [raised |-> generated = GenerationFails, output |-> generated, gens |-> 1]

\* mutant: a hit moves its entry to the newest position
cache_hit_refreshes(cache, i, m, t) ==
    [cache |-> SubSeq(cache, 1, i - 1) \o SubSeq(cache, i + 1, Len(cache)) \o <<cache[i]>>,
     model |-> m, tokenizer |-> t, hit |-> TRUE,
     status |-> "returned", failed_at |-> "", result |-> cache[i].value,
     loads |-> 0, gens |-> 0, steps |-> <<>>]

\* mutant: the cache is consulted only after the model has generated
cache_hit_regenerates(cache, i, m, t) ==
    [cache |-> cache, model |-> m, tokenizer |-> t, hit |-> TRUE,
     status |-> "returned", failed_at |-> "", result |-> cache[i].value,
     loads |-> 0, gens |-> 1, steps |-> <<>>]

\* lines 99-103: answer from the cache
cache_hit(cache, i, m, t) ==
    [cache |-> cache, model |-> m, tokenizer |-> t, hit |-> TRUE,
     status |-> "returned", failed_at |-> "", result |-> cache[i].value,
     loads |-> 0, gens |-> 0, steps |-> <<>>]

\* mutant: the key is reserved before the model runs, and stays when it fails
cache_miss_reserves_key(cache, m, t, text, schema, examples, load_outcome, generated) ==
    LET loaded == load_model_if_needed(m, t, load_outcome)
        gen    == run_generation(generated)
        post   == postprocess(gen.output, schema)
        by     == [text |-> text, schema |-> schema, examples |-> ExamplesOrEmpty(examples)]
        held   == cleanup_cache(DictSet(cache, get_cache_key(text, schema, examples),
                                        <<"{", "}">>, by))
        base   == [cache |-> held, model |-> loaded.model, tokenizer |-> loaded.tokenizer,
                   hit |-> FALSE, status |-> "raised", failed_at |-> "load",
                   result |-> None, loads |-> loaded.loads, gens |-> 0, steps |-> <<>>]
    IN  IF loaded.raised THEN base
        ELSE IF gen.raised THEN [base EXCEPT !.failed_at = "generate", !.gens = gen.gens]
        ELSE IF post.status = "raised"
             THEN [base EXCEPT !.failed_at = "postprocess", !.gens = gen.gens,
                               !.steps = post.steps]
        ELSE [base EXCEPT
                !.failed_at = "",
                !.cache = cleanup_cache(
                              DictSet(cache, get_cache_key(text, schema, examples),
                                      post.result, by)),
                !.status = "returned", !.result = post.result,
                !.gens = gen.gens, !.steps = post.steps]

\* lines 105-329: load the model, generate, post-process, store
cache_miss(cache, m, t, text, schema, examples, load_outcome, generated) ==
    LET loaded == load_model_if_needed(m, t, load_outcome)
        gen    == run_generation(generated)
        post   == postprocess(gen.output, schema)
        by     == [text |-> text, schema |-> schema, examples |-> ExamplesOrEmpty(examples)]
        base   == [cache |-> cache, model |-> loaded.model, tokenizer |-> loaded.tokenizer,
                   hit |-> FALSE, status |-> "raised", failed_at |-> "load",
                   result |-> None, loads |-> loaded.loads, gens |-> 0, steps |-> <<>>]
    IN  IF loaded.raised THEN base
        ELSE IF gen.raised THEN [base EXCEPT !.failed_at = "generate", !.gens = gen.gens]
        ELSE IF post.status = "raised"
             THEN [base EXCEPT !.failed_at = "postprocess", !.gens = gen.gens,
                               !.steps = post.steps]
        ELSE [base EXCEPT
                !.failed_at = "",
                !.cache = cleanup_cache(
                              DictSet(cache, get_cache_key(text, schema, examples),
                                      post.result, by)),
                !.status = "returned", !.result = post.result,
                !.gens = gen.gens, !.steps = post.steps]

\* what the environment may answer to a call: a load outcome only when
\* load_model_if_needed starts a load, a generation outcome on every miss
LoadChoices == IF model # "None" /\ tokenizer # "None" THEN {"ok"} ELSE LoadOutcomes
GenChoices == Outputs \cup {GenerationFails}

\* The sets of one element bind a value that the conjuncts below use repeatedly.
\* The call as its callers see it: what it does to the globals of the module,
\* from the cache as its caller left it (cache) and the count of calls since
\* the latest clear_cache (since).
predict_keywords_from(cache, since, text, schema, examples) ==
    \E i \in {CacheIndex(cache, get_cache_key(text, schema, examples))} :
    \E run \in IF i # 0
               THEN {cache_hit(cache, i, model, tokenizer)}
               ELSE {cache_miss(cache, model, tokenizer, text, schema, examples,
                                load_outcome, generated) :
                        load_outcome \in LoadChoices, generated \in GenChoices} :
    \E nth \in {IF since = -1 THEN -1
                ELSE IF since < MaxSince THEN since + 1
                ELSE MaxSince} :
        /\ ~model_loading
        /\ result_cache' = run.cache
        /\ model' = run.model
        /\ tokenizer' = run.tokenizer
        /\ calls_since_clear' = nth
        /\ last' = [text |-> text, schema |-> schema, examples |-> examples,
                    hit |-> run.hit, status |-> run.status, failed_at |-> run.failed_at,
                    result |-> run.result, loads |-> run.loads, gens |-> run.gens,
                    steps |-> run.steps, nth |-> nth,
                    cached_before |-> Len(cache)]
        /\ last_op' = "predict_keywords"
        /\ UNCHANGED model_loading

predict_keywords_call(text, schema, examples) ==
    predict_keywords_from(result_cache, calls_since_clear, text, schema, examples)

predict_keywords(text, schema, examples) ==
    /\ predict_keywords_call(text, schema, examples)
    /\ UNCHANGED <<pipeline_vars, key_vars, app_vars, prompt_vars, thread_vars, db_vars>>

clear_cache_call ==
    /\ result_cache' = clear_cache_result(result_cache)
    /\ calls_since_clear' = 0
    /\ last_op' = "clear_cache"
    /\ UNCHANGED <<model, tokenizer, model_loading, last>>

clear_cache ==
    /\ clear_cache_call
    /\ UNCHANGED <<pipeline_vars, key_vars, app_vars, prompt_vars, thread_vars, db_vars>>

InitCache ==
    /\ ExtractorIdle /\ PipelineIdle /\ KeyIdle /\ AppIdle
    /\ PromptIdle /\ ThreadsIdle /\ DbIdle

NextCache ==
    \/ \E t \in Triples : predict_keywords(t.text, t.schema, t.examples)
    \/ clear_cache

SpecCache == InitCache /\ [][NextCache]_vars

\* --------------------------------------- data_loader.py and app.py ----
\* File names: a stem and an extension.
FileNames == {[stem |-> "a", ext |-> "pdf"],
              [stem |-> "b", ext |-> "PDF"],
              [stem |-> "d", ext |-> "pdf"],
              [stem |-> "c", ext |-> "txt"]}

\* str.lower() on the extensions in use
Lower(ext) == IF ext = "PDF" THEN "pdf" ELSE ext

\* file.filename.lower().endswith('.pdf')
is_pdf_upload(name) == Lower(name.ext) = "pdf"

\* glob("*.pdf"): fnmatch compares case-sensitively on POSIX
glob_pdf(folder) == {f \in folder : f.ext = "pdf"}

\* What the libraries may do in one load_resumes run.
LoadEvents == {"ok", "embeddings_fail", "index_build_fails", "sidecar_write_fails"}

\* mutant: a PDF that cannot be read ends the whole load
load_resumes_abort_on_bad_pdf(folder, unreadable, event, old_sidecar, id) ==
    LET pdf_files == glob_pdf(folder)
        docs      == pdf_files \ unreadable
        failed(at) == [raised |-> TRUE, failed_at |-> at, store |-> NoIndex,
                       sidecar |-> old_sidecar, built |-> FALSE]
    IN  IF pdf_files = {}
        THEN [raised |-> FALSE, failed_at |-> "", store |-> NoIndex,
              sidecar |-> old_sidecar, built |-> FALSE]
        ELSE IF event = "embeddings_fail" THEN failed("embeddings")
        ELSE IF docs # pdf_files THEN failed("pdf")
        ELSE IF event = "index_build_fails" \/ docs = {} THEN failed("index_build")
        ELSE IF event = "sidecar_write_fails"
        THEN [failed("sidecar") EXCEPT !.built = TRUE]
        ELSE [raised |-> FALSE, failed_at |-> "", store |-> Index(docs, id),
              sidecar |-> Sidecar(docs), built |-> TRUE]

\* load_resumes over the files in folder: unreadable are the PDFs whose load
\* or split raises, event is what the rest of the run meets, id names the
\* index object that FAISS.from_documents creates.  FAISS cannot build an
\* index over no chunks: from_documents raises on an empty list.
\* failed_at is the step that raised, built says whether an index was created.
load_resumes(folder, unreadable, event, old_sidecar, id) ==
    LET pdf_files == glob_pdf(folder)
        docs      == pdf_files \ unreadable
        failed(at) == [raised |-> TRUE, failed_at |-> at, store |-> NoIndex,
                       sidecar |-> old_sidecar, built |-> FALSE]
    IN  IF pdf_files = {}
        THEN [raised |-> FALSE, failed_at |-> "", store |-> NoIndex,
              sidecar |-> old_sidecar, built |-> FALSE]
        ELSE IF event = "embeddings_fail" THEN failed("embeddings")
        ELSE IF event = "index_build_fails" \/ docs = {} THEN failed("index_build")
        ELSE IF event = "sidecar_write_fails"
        THEN [failed("sidecar") EXCEPT !.built = TRUE]
        ELSE [raised |-> FALSE, failed_at |-> "", store |-> Index(docs, id),
              sidecar |-> Sidecar(docs), built |-> TRUE]

\* the record of a load_resumes call
LoadCall(folder, unreadable, loaded) ==
    [called |-> TRUE, pdf_files |-> glob_pdf(folder),
     unreadable |-> unreadable \cap glob_pdf(folder), raised |-> loaded.raised,
     failed_at |-> loaded.failed_at, store |-> loaded.store]

\* the files that load_resumes finds, when DATA_FOLDER holds folder
LoaderView(folder) == IF env.DATA_FOLDER_set THEN env.config_folder ELSE folder

\* the index counter after a load
BuildsAfter(loaded) == IF loaded.built THEN builds + 1 ELSE builds

\* lines 203-227 of upload_resumes: validate and save the files in order.
\* fail_at is the position of the file whose save raises, 0 for none.
RECURSIVE save_files(_, _, _, _, _)
save_files(files, i, folder, files_processed, fail_at) ==
    IF i > Len(files)
    THEN [status |-> 200, folder |-> folder, files_processed |-> files_processed]
    ELSE IF ~is_pdf_upload(files[i])
    THEN [status |-> 400, folder |-> folder, files_processed |-> files_processed]
    ELSE IF i = fail_at
    THEN [status |-> 500, folder |-> folder, files_processed |-> files_processed]
    ELSE save_files(files, i + 1, folder \cup {files[i]}, files_processed + 1, fail_at)

\* mutant: the upload leaves the chain in place
reset_chain_kept(ch) == ch

\* line 234 of upload_resumes: chain = None
reset_chain(ch) == NoChain

\* POST /upload-resumes
upload_resumes(files, fail_at, unreadable, event) ==
    \E saved \in {save_files(files, 1, data_folder \ glob_pdf(data_folder), 0, fail_at)} :
    \E loaded \in {load_resumes(LoaderView(saved.folder), unreadable, event, sidecar,
                                 builds + 1)} :
        /\ builds < MaxBuilds
        /\ data_folder' = saved.folder
        /\ IF saved.status # 200
           THEN /\ response' = [endpoint |-> "upload_resumes", status |-> saved.status,
                                first_raised |-> saved.status,
                                files_processed |-> 0, vector_store_created |-> FALSE,
                                saved |-> {}]
                /\ load_call' = NoLoad
                /\ UNCHANGED <<vector_store, chain, sidecar, builds>>
           ELSE /\ chain' = reset_chain(chain)
                /\ sidecar' = loaded.sidecar
                /\ builds' = BuildsAfter(loaded)
                /\ load_call' = LoadCall(LoaderView(saved.folder), unreadable, loaded)
                /\ IF loaded.raised
                   THEN /\ vector_store' = NoIndex
                        /\ response' = [endpoint |-> "upload_resumes", status |-> 500,
                                        first_raised |-> 500, files_processed |-> 0,
                                        vector_store_created |-> FALSE, saved |-> {}]
                   ELSE /\ vector_store' = loaded.store
                        /\ response' = [endpoint |-> "upload_resumes", status |-> 200,
                                        first_raised |-> 0,
                                        files_processed |-> saved.files_processed,
                                        vector_store_created |-> TRUE,
                                        saved |-> {files[i] : i \in 1..Len(files)}]
        /\ assess_call' = NoAssess
        /\ UNCHANGED <<env, extractor_vars, pipeline_vars, key_vars,
                       prompt_vars, thread_vars, db_vars>>

\* The request carries at least one file: FastAPI rejects a request without
\* the required files field before the handler runs.
Uploads == UNION {[1..n -> FileNames] : n \in 1..MaxFiles}

InitApp ==
    /\ ExtractorIdle /\ PipelineIdle /\ KeyIdle /\ PromptIdle /\ ThreadsIdle /\ DbIdle
    /\ data_folder \in SUBSET FileNames
    /\ env = NoEnv
    /\ vector_store = NoIndex
    /\ chain = NoChain
    /\ sidecar = NoSidecar
    /\ response = NoResponse
    /\ builds = 0
    /\ load_call = NoLoad
    /\ assess_call = NoAssess

\* the PDFs that a load may find unreadable are among those the glob can return
Unreadables == SUBSET glob_pdf(FileNames)

NextApp ==
    \E files \in Uploads :
    \E fail_at \in 0..Len(files), unreadable \in Unreadables, event \in LoadEvents :
        upload_resumes(files, fail_at, unreadable, event)

SpecApp == InitApp /\ [][NextApp]_vars

\* ------------------------------------ llm_chain.py and the endpoints ----
\* What ChatMistralAI / RetrievalQA may do in build_chain, and chain.run.
ChainEvents == {"ok", "build_fails"}
RunEvents == {"ok", "run_fails"}

\* app.py:72-78 DEFAULT_SCHEMA: an object with list-valued keys
DEFAULT_SCHEMA == <<"{", "k", "[", "]", "}">>

\* " ".join(doc["page_content"] for doc in docs): the chunks of each PDF
\* are its stem, the PDFs come in the order of their names
StemOrder == <<"a", "b", "c", "d">>

RECURSIVE JoinChunks(_, _)
JoinChunks(docs, i) ==
    IF i > Len(StemOrder) THEN <<>>
    ELSE LET rest == JoinChunks(docs, i + 1)
         IN  IF \E d \in docs : d.stem = StemOrder[i]
             THEN <<StemOrder[i]>> \o (IF rest = <<>> THEN <<>> ELSE <<" ">> \o rest)
             ELSE rest

ResumeText(docs) == JoinChunks(docs, 1)

\* a response that is what the request raised, or a plain return
Response(endpoint, status) ==
    [endpoint |-> endpoint, status |-> status,
     first_raised |-> IF status = 200 THEN 0 ELSE status, files_processed |-> 0,
     vector_store_created |-> FALSE, saved |-> {}]

\* an HTTPException raised inside a try whose "except Exception" answers
\* every exception with a new HTTPException(500)
Recaught(endpoint, raised) ==
    [endpoint |-> endpoint, status |-> 500, first_raised |-> raised,
     files_processed |-> 0, vector_store_created |-> FALSE, saved |-> {}]

\* a load_resumes result for a call that was not made
NotLoaded(sc) ==
    [raised |-> FALSE, failed_at |-> "", store |-> NoIndex, sidecar |-> sc, built |-> FALSE]

\* get_vector_store, run alone, from the globals vs (vector_store) and the
\* files on disk.  status 400 is the HTTPException of line 140, 500 an
\* exception of load_resumes that leaves the dependency.
get_vector_store(vs, folder, sc, unreadable, event, id) ==
    IF ~vs.is_none
    THEN [status |-> 200, ret |-> vs, vector_store |-> vs, loaded |-> NotLoaded(sc),
          load_call |-> NoLoad]
    ELSE IF glob_pdf(folder) = {}
    THEN [status |-> 400, ret |-> NoIndex, vector_store |-> vs, loaded |-> NotLoaded(sc),
          load_call |-> NoLoad]
    ELSE LET loaded == load_resumes(LoaderView(folder), unreadable, event, sc, id)
         IN  [status |-> IF loaded.raised THEN 500 ELSE 200,
              ret |-> loaded.store,
              vector_store |-> IF loaded.raised THEN vs ELSE loaded.store,
              loaded |-> loaded,
              load_call |-> LoadCall(LoaderView(folder), unreadable, loaded)]

\* mutant: the chain is built over a retriever of its own, not over the index
build_chain_detached(vs, chain_event) ==
    [raised |-> FALSE, chain |-> Chain(NoIndex)]

\* build_chain(vector_store, api_key): vector_store.as_retriever() raises on None
build_chain(vs, chain_event) ==
    IF vs.is_none \/ chain_event = "build_fails"
    THEN [raised |-> TRUE, chain |-> NoChain]
    ELSE [raised |-> FALSE, chain |-> Chain(vs)]

\* get_chain, run alone, from the globals ch (chain) and vs (vector_store)
get_chain(ch, vs, folder, sc, unreadable, event, chain_event, id) ==
    IF ~ch.is_none
    THEN [status |-> 200, ret |-> ch, chain |-> ch, vector_store |-> vs,
          loaded |-> NotLoaded(sc), load_call |-> NoLoad]
    ELSE LET got   == get_vector_store(vs, folder, sc, unreadable, event, id)
             built == build_chain(got.ret, chain_event)
         IN  IF got.status # 200
             THEN [status |-> got.status, ret |-> NoChain, chain |-> ch,
                   vector_store |-> got.vector_store, loaded |-> got.loaded,
                   load_call |-> got.load_call]
             ELSE IF built.raised
             THEN [status |-> 500, ret |-> NoChain, chain |-> ch,
                   vector_store |-> got.vector_store, loaded |-> got.loaded,
                   load_call |-> got.load_call]
             ELSE [status |-> 200, ret |-> built.chain, chain |-> built.chain,
                   vector_store |-> got.vector_store, loaded |-> got.loaded,
                   load_call |-> got.load_call]

\* mutant: a failed chain.run is tried once more and its failure is swallowed
assess_candidate_retry(ch, keywords, run_event) ==
    IF run_event = "run_fails"
    THEN [called |-> TRUE, runs |-> 2, failed |-> TRUE, raised |-> FALSE, result |-> <<>>,
          over |-> ch.over]
    ELSE [called |-> TRUE, runs |-> 1, failed |-> FALSE, raised |-> FALSE,
          result |-> <<"assessment", keywords>>, over |-> ch.over]

\* llm_chain.assess_candidate: one chain.run(prompt), its exception propagates
assess_candidate(ch, keywords, run_event) ==
    IF run_event = "run_fails"
    THEN [called |-> TRUE, runs |-> 1, failed |-> TRUE, raised |-> TRUE, result |-> None,
          over |-> ch.over]
    ELSE [called |-> TRUE, runs |-> 1, failed |-> FALSE, raised |-> FALSE,
          result |-> <<"assessment", keywords>>, over |-> ch.over]

\* What the dependency may meet: a load only happens when both globals are
\* None and the folder has a PDF, a chain is only built when chain is None.
DepLoads ==
    IF chain.is_none /\ vector_store.is_none /\ glob_pdf(data_folder) # {}
    THEN Unreadables \X LoadEvents
    ELSE {<<{}, "ok">>}
DepChainEvents == IF chain.is_none THEN ChainEvents ELSE {"ok"}

\* the globals after the dependency get_chain has run
AfterDependency(dep) ==
    /\ dep.loaded.built => builds < MaxBuilds
    /\ chain' = dep.chain
    /\ vector_store' = dep.vector_store
    /\ sidecar' = dep.loaded.sidecar
    /\ builds' = BuildsAfter(dep.loaded)
    /\ load_call' = dep.load_call

\* POST /assess-candidate
assess_candidate_endpoint(keywords, load, chain_event, run_event) ==
    \E dep \in {get_chain(chain, vector_store, data_folder, sidecar, load[1], load[2],
                           chain_event, builds + 1)} :
        /\ AfterDependency(dep)
        /\ IF dep.status # 200
           THEN /\ assess_call' = NoAssess
                /\ response' = Response("assess_candidate", dep.status)
           ELSE /\ assess_call' = assess_candidate(dep.ret, keywords, run_event)
                /\ response' = Response("assess_candidate",
                                        IF assess_call'.raised THEN 500 ELSE 200)
        /\ UNCHANGED <<data_folder, env, extractor_vars, pipeline_vars, key_vars,
                       prompt_vars, thread_vars, db_vars>>

\* POST /analyze-resumes.  The dependency runs before the handler; inside the
\* handler every exception, the HTTPException(400) of line 364 included, is
\* caught at line 395 and answered with 500.
analyze_resumes(load, chain_event, run_event) ==
    \E dep \in {get_chain(chain, vector_store, data_folder, sidecar, load[1], load[2],
                           chain_event, builds + 1)} :
        /\ AfterDependency(dep)
        /\ IF dep.status # 200
           THEN /\ assess_call' = NoAssess
                /\ response' = Response("analyze_resumes", dep.status)
                /\ UNCHANGED extractor_vars
           ELSE IF ~dep.loaded.sidecar.exists
           THEN /\ assess_call' = NoAssess
                /\ response' = Recaught("analyze_resumes", 400)
                /\ UNCHANGED extractor_vars
           ELSE /\ predict_keywords_call(ResumeText(dep.loaded.sidecar.docs),
                                         DEFAULT_SCHEMA, NoExamples)
                /\ IF last'.status = "raised"
                   THEN /\ assess_call' = NoAssess
                        /\ response' = Response("analyze_resumes", 500)
                   ELSE /\ assess_call' = assess_candidate(dep.ret, last'.result, run_event)
                        /\ response' = Response("analyze_resumes",
                                                IF assess_call'.raised THEN 500 ELSE 200)
        /\ UNCHANGED <<data_folder, env, pipeline_vars, key_vars, prompt_vars, thread_vars,
                       db_vars>>

\* POST /regenerate-vector-store
regenerate_vector_store(unreadable, event) ==
    \E loaded \in {load_resumes(LoaderView(data_folder), unreadable, event, sidecar,
                                 builds + 1)} :
        /\ IF glob_pdf(data_folder) = {}
           THEN \* HTTPException(400) raised inside the try, answered with 500
                /\ response' = Recaught("regenerate_vector_store", 400)
                /\ load_call' = NoLoad
                /\ UNCHANGED <<vector_store, chain, sidecar, builds, extractor_vars>>
           ELSE /\ builds < MaxBuilds
                /\ chain' = NoChain
                /\ clear_cache_call
                /\ sidecar' = loaded.sidecar
                /\ builds' = BuildsAfter(loaded)
                /\ load_call' = LoadCall(LoaderView(data_folder), unreadable, loaded)
                /\ vector_store' = loaded.store
                /\ response' = Response("regenerate_vector_store",
                                        IF loaded.raised \/ loaded.store.is_none
                                        THEN 500 ELSE 200)
        /\ assess_call' = NoAssess
        /\ UNCHANGED <<data_folder, env, pipeline_vars, key_vars, prompt_vars, thread_vars,
                       db_vars>>

\* POST /debug-extraction.  The sample is the first five chunks, here all of
\* them.  Every exception inside the handler, the HTTPException(400) of line
\* 580 and the .values() of line 648 on a result that is no dict included, is
\* caught at line 665 and answered with 500.
debug_keyword_extraction ==
    /\ IF ~sidecar.exists
       THEN /\ response' = Recaught("debug_keyword_extraction", 400)
            /\ UNCHANGED extractor_vars
       ELSE /\ predict_keywords_from(clear_cache_result(result_cache), 0,
                                     ResumeText(sidecar.docs), DEFAULT_SCHEMA, NoExamples)
            /\ response' = Response("debug_keyword_extraction",
                                    IF last'.status = "raised" THEN 500
                                    ELSE IF ~IsDict(json_loads(last'.result).val)
                                    THEN 500 ELSE 200)
    /\ load_call' = NoLoad
    /\ assess_call' = NoAssess
    /\ UNCHANGED <<data_folder, env, vector_store, chain, sidecar, builds, pipeline_vars,
                   key_vars, prompt_vars, thread_vars, db_vars>>

\* POST /extract-keywords
extract_keywords(text, schema, examples) ==
    /\ predict_keywords_call(text, schema, examples)
    /\ response' = Response("extract_keywords", IF last'.status = "raised" THEN 500 ELSE 200)
    /\ load_call' = NoLoad
    /\ assess_call' = NoAssess
    /\ UNCHANGED <<data_folder, env, vector_store, chain, sidecar, builds, pipeline_vars,
                   key_vars, prompt_vars, thread_vars, db_vars>>

\* GET /status: reads the globals and the folder
get_status ==
    /\ response' = Response("get_status", 200)
    /\ load_call' = NoLoad
    /\ assess_call' = NoAssess
    /\ UNCHANGED <<data_folder, env, vector_store, chain, sidecar, builds, extractor_vars,
                   pipeline_vars, key_vars, prompt_vars, thread_vars, db_vars>>

\* GET /cache-stats: get_cache_stats reads len(result_cache) and the keys
get_cache_statistics ==
    /\ response' = Response("get_cache_statistics", 200)
    /\ load_call' = NoLoad
    /\ assess_call' = NoAssess
    /\ UNCHANGED <<data_folder, env, vector_store, chain, sidecar, builds, extractor_vars,
                   pipeline_vars, key_vars, prompt_vars, thread_vars, db_vars>>

\* DELETE /cache
clear_keyword_cache ==
    /\ clear_cache_call
    /\ response' = Response("clear_keyword_cache", 200)
    /\ load_call' = NoLoad
    /\ assess_call' = NoAssess
    /\ UNCHANGED <<data_folder, env, vector_store, chain, sidecar, builds,
                   pipeline_vars, key_vars, prompt_vars, thread_vars, db_vars>>

\* Requests that use or replace the index and the chain, served one after
\* the other.  One file per upload: a PDF, a PDF in upper case, a text file.
ServerUploads ==
    {<<f>> : f \in {[stem |-> "a", ext |-> "pdf"], [stem |-> "b", ext |-> "PDF"],
                     [stem |-> "c", ext |-> "txt"]}}
Keywords == {<<"{", "}">>}

InitServer ==
    /\ ExtractorIdle /\ PipelineIdle /\ KeyIdle /\ PromptIdle /\ ThreadsIdle /\ DbIdle
    /\ data_folder \in {{}, {[stem |-> "a", ext |-> "pdf"]}}
    /\ env = NoEnv
    /\ vector_store = NoIndex
    /\ chain = NoChain
    /\ sidecar = NoSidecar
    /\ response = NoResponse
    /\ builds = 0
    /\ load_call = NoLoad
    /\ assess_call = NoAssess

NextServer ==
    \/ \E files \in ServerUploads :
       \E fail_at \in 0..Len(files), unreadable \in Unreadables, event \in LoadEvents :
           upload_resumes(files, fail_at, unreadable, event)
    \/ \E keywords \in Keywords, load \in DepLoads, chain_event \in DepChainEvents,
          run_event \in RunEvents :
           assess_candidate_endpoint(keywords, load, chain_event, run_event)
    \/ \E load \in DepLoads, chain_event \in DepChainEvents, run_event \in RunEvents :
           analyze_resumes(load, chain_event, run_event)
    \/ \E unreadable \in Unreadables, event \in LoadEvents :
           regenerate_vector_store(unreadable, event)
    \/ debug_keyword_extraction

SpecServer == InitServer /\ [][NextServer]_vars

\* The same requests when the environment sets DATA_FOLDER: app.py works in
\* that folder, load_resumes in the folder that config.json names.
InitEnv ==
    /\ ExtractorIdle /\ PipelineIdle /\ KeyIdle /\ PromptIdle /\ ThreadsIdle /\ DbIdle
    /\ data_folder \in {{}, {[stem |-> "a", ext |-> "pdf"]}}
    /\ env \in {NoEnv, Env({}), Env({[stem |-> "b", ext |-> "pdf"]})}
    /\ vector_store = NoIndex
    /\ chain = NoChain
    /\ sidecar = NoSidecar
    /\ response = NoResponse
    /\ builds = 0
    /\ load_call = NoLoad
    /\ assess_call = NoAssess

NextEnv ==
    \/ \E files \in ServerUploads :
       \E fail_at \in 0..Len(files), event \in LoadEvents :
           upload_resumes(files, fail_at, {}, event)
    \/ \E keywords \in Keywords, load \in DepLoads, chain_event \in DepChainEvents,
          run_event \in RunEvents :
           assess_candidate_endpoint(keywords, load, chain_event, run_event)
    \/ \E event \in LoadEvents : regenerate_vector_store({}, event)

SpecEnv == InitEnv /\ [][NextEnv]_vars

\* Requests that read or write the result cache next to requests that do
\* not, served one after the other.
CacheOpsTriples == {t \in Triples : t.examples = NoExamples}
CacheOpsUploads ==
    {<<f>> : f \in {[stem |-> "a", ext |-> "pdf"], [stem |-> "c", ext |-> "txt"]}}

InitCacheOps ==
    /\ ExtractorIdle /\ PipelineIdle /\ KeyIdle /\ PromptIdle /\ ThreadsIdle /\ DbIdle
    /\ AppIdle

NextCacheOps ==
    \/ \E t \in CacheOpsTriples : extract_keywords(t.text, t.schema, t.examples)
    \/ clear_keyword_cache
    \/ get_cache_statistics
    \/ get_status
    \/ \E files \in CacheOpsUploads :
       \E fail_at \in 0..Len(files), event \in LoadEvents :
           upload_resumes(files, fail_at, {}, event)

SpecCacheOps == InitCacheOps /\ [][NextCacheOps]_vars

\* ------------------- get_chain in a worker thread next to a request ----
\* FastAPI runs the synchronous dependency get_chain in a worker thread while
\* the async handlers run on the event loop, so the statements of get_chain
\* interleave with those of upload_resumes and regenerate_vector_store.
\* One step per statement that reads or writes a global.  The handlers have
\* no await, so the event loop runs one handler at a time from start to
\* end: it hands a dependency to a worker, and runs the body of the
\* depending handler, only when no other handler is running.
Overlap(g, u) == g.pc # "idle" /\ u.pc # "idle"

\* the step of the get_chain call that takes gc to g
GcStep(g) ==
    /\ gc' = g
    /\ up' = [up EXCEPT !.raced = @ \/ Overlap(g, up)]

\* the step of the upload or regenerate request that takes up to u
UpStep(u) ==
    /\ up' = [u EXCEPT !.raced = up.raced \/ Overlap(gc, u)]
    /\ gc' = gc

\* a request with Depends(get_chain) arrives
GcStart ==
    /\ gc.pc = "idle"
    /\ up.pc = "idle"
    /\ GcStep([GcIdle EXCEPT !.pc = "check_chain"])
    /\ UNCHANGED <<app_vars, writers, loaders, extractor_vars, pipeline_vars, key_vars, prompt_vars,
                   db_vars>>

\* line 155: if chain is None
GcCheckChain ==
    /\ gc.pc = "check_chain"
    /\ GcStep([gc EXCEPT !.pc = IF chain.is_none THEN "check_vs" ELSE "return_chain"])
    /\ UNCHANGED <<app_vars, writers, loaders, extractor_vars, pipeline_vars, key_vars, prompt_vars,
                   db_vars>>

\* lines 135-144: if vector_store is None, look for PDFs; 400 when there is none
GcCheckVs ==
    /\ gc.pc = "check_vs"
    /\ GcStep([gc EXCEPT !.pc = IF ~vector_store.is_none THEN "return_vs"
                                ELSE IF glob_pdf(data_folder) = {} THEN "idle"
                                ELSE "load"])
    /\ UNCHANGED <<app_vars, writers, loaders, extractor_vars, pipeline_vars, key_vars, prompt_vars,
                   db_vars>>

\* line 145: vector_store = load_resumes()
GcLoad(unreadable, event) ==
    \E loaded \in {load_resumes(LoaderView(data_folder), unreadable, event, sidecar,
                                 builds + 1)} :
        /\ gc.pc = "load"
        /\ builds < MaxBuilds
        /\ GcStep([gc EXCEPT !.pc = IF loaded.raised THEN "idle" ELSE "return_vs"])
        /\ vector_store' = IF loaded.raised THEN vector_store ELSE loaded.store
        /\ sidecar' = loaded.sidecar
        /\ builds' = BuildsAfter(loaded)
        /\ load_call' = LoadCall(LoaderView(data_folder), unreadable, loaded)
        /\ UNCHANGED <<data_folder, env, chain, response, assess_call, writers, loaders, extractor_vars,
                       pipeline_vars, key_vars, prompt_vars, db_vars>>

\* line 149: return vector_store, a read of the global
GcReturnVs ==
    /\ gc.pc = "return_vs"
    /\ GcStep([gc EXCEPT !.pc = "build", !.vs = vector_store])
    /\ UNCHANGED <<app_vars, writers, loaders, extractor_vars, pipeline_vars, key_vars, prompt_vars,
                   db_vars>>

\* line 157, right-hand side: build_chain(vs, API_KEY)
GcBuild(chain_event) ==
    \E built \in {build_chain(gc.vs, chain_event)} :
        /\ gc.pc = "build"
        /\ GcStep([gc EXCEPT !.pc = IF built.raised THEN "idle" ELSE "store_chain",
                             !.built = built.chain])
        /\ UNCHANGED <<app_vars, writers, loaders, extractor_vars, pipeline_vars, key_vars,
                       prompt_vars, db_vars>>

\* line 157, the assignment: chain = ...
GcStoreChain ==
    /\ gc.pc = "store_chain"
    /\ GcStep([gc EXCEPT !.pc = "return_chain"])
    /\ chain' = gc.built
    /\ UNCHANGED <<data_folder, env, vector_store, sidecar, response, builds, load_call,
                   assess_call, writers, loaders, extractor_vars, pipeline_vars, key_vars,
                   prompt_vars, db_vars>>

\* line 162: return chain, a read of the global
GcReturnChain ==
    /\ gc.pc = "return_chain"
    /\ GcStep([gc EXCEPT !.pc = "use", !.ret = chain])
    /\ UNCHANGED <<app_vars, writers, loaders, extractor_vars, pipeline_vars, key_vars, prompt_vars,
                   db_vars>>

\* line 331: the handler passes the chain it was given to assess_candidate;
\* chain.run on None raises and the handler answers 500
GcUse(keywords, run_event) ==
    /\ gc.pc = "use"
    /\ up.pc = "idle"
    /\ GcStep([gc EXCEPT !.pc = "idle",
                         !.stale_use = ~gc.ret.is_none /\ gc.ret.over # vector_store])
    /\ assess_call' = IF gc.ret.is_none THEN NoAssess
                      ELSE assess_candidate(gc.ret, keywords, run_event)
    /\ response' = Response("assess_candidate",
                            IF gc.ret.is_none \/ assess_call'.raised THEN 500 ELSE 200)
    /\ UNCHANGED <<data_folder, env, vector_store, chain, sidecar, builds, load_call, writers,
                   loaders, extractor_vars, pipeline_vars, key_vars, prompt_vars, db_vars>>

\* lines 189-229 of upload_resumes: replace the PDFs in the folder
UpStartUpload(files) ==
    \E saved \in {save_files(files, 1, data_folder \ glob_pdf(data_folder), 0, 0)} :
        /\ up.pc = "idle"
        /\ data_folder' = saved.folder
        /\ UpStep([up EXCEPT !.pc = IF saved.status = 200 THEN "reset_vs" ELSE "idle",
                             !.kind = "upload"])
        /\ UNCHANGED <<env, vector_store, chain, sidecar, response, builds, load_call,
                       assess_call, writers, loaders, extractor_vars, pipeline_vars, key_vars,
                       prompt_vars, db_vars>>

\* lines 678-685 of regenerate_vector_store
UpStartRegenerate ==
    /\ up.pc = "idle"
    /\ glob_pdf(data_folder) # {}
    /\ UpStep([up EXCEPT !.pc = "reset_vs", !.kind = "regenerate"])
    /\ UNCHANGED <<app_vars, writers, loaders, extractor_vars, pipeline_vars, key_vars, prompt_vars,
                   db_vars>>

\* line 233 / 693: vector_store = None
UpResetVs ==
    /\ up.pc = "reset_vs"
    /\ UpStep([up EXCEPT !.pc = "reset_chain"])
    /\ vector_store' = NoIndex
    /\ UNCHANGED <<data_folder, env, chain, sidecar, response, builds, load_call, assess_call,
                   writers, loaders, extractor_vars, pipeline_vars, key_vars, prompt_vars, db_vars>>

\* line 234 / 694: chain = None
UpResetChain ==
    /\ up.pc = "reset_chain"
    /\ UpStep([up EXCEPT !.pc = IF up.kind = "regenerate" THEN "clear_cache" ELSE "load"])
    /\ chain' = reset_chain(chain)
    /\ UNCHANGED <<data_folder, env, vector_store, sidecar, response, builds, load_call,
                   assess_call, writers, loaders, extractor_vars, pipeline_vars, key_vars,
                   prompt_vars, db_vars>>

\* line 697 of regenerate_vector_store: clear_cache()
UpClearCache ==
    /\ up.pc = "clear_cache"
    /\ UpStep([up EXCEPT !.pc = "load"])
    /\ clear_cache_call
    /\ UNCHANGED <<app_vars, writers, loaders, pipeline_vars, key_vars, prompt_vars, db_vars>>

\* line 241: vector_store = load_resumes(), no assignment when it raises;
\* lines 704-707: the result is assigned if it is not None
UpLoad(unreadable, event) ==
    \E loaded \in {load_resumes(LoaderView(data_folder), unreadable, event, sidecar,
                                 builds + 1)} :
        /\ up.pc = "load"
        /\ builds < MaxBuilds
        /\ UpStep([up EXCEPT !.pc = "idle"])
        /\ vector_store' = IF loaded.raised THEN vector_store
                           ELSE IF up.kind = "regenerate" /\ loaded.store.is_none
                           THEN vector_store
                           ELSE loaded.store
        /\ sidecar' = loaded.sidecar
        /\ builds' = BuildsAfter(loaded)
        /\ load_call' = LoadCall(LoaderView(data_folder), unreadable, loaded)
        /\ response' = Response(IF up.kind = "upload" THEN "upload_resumes"
                                ELSE "regenerate_vector_store",
                                IF loaded.raised THEN 500 ELSE 200)
        /\ UNCHANGED <<data_folder, env, chain, assess_call, writers, loaders, extractor_vars,
                       pipeline_vars, key_vars, prompt_vars, db_vars>>

RaceEvents == {"ok", "index_build_fails"}

InitRace ==
    /\ ExtractorIdle /\ PipelineIdle /\ KeyIdle /\ PromptIdle /\ ThreadsIdle /\ DbIdle
    /\ data_folder \in {{}, {[stem |-> "a", ext |-> "pdf"]}}
    /\ env = NoEnv
    /\ vector_store = NoIndex
    /\ chain = NoChain
    /\ sidecar = NoSidecar
    /\ response = NoResponse
    /\ builds = 0
    /\ load_call = NoLoad
    /\ assess_call = NoAssess

NextRace ==
    \/ GcStart
    \/ GcCheckChain
    \/ GcCheckVs
    \/ \E event \in RaceEvents : GcLoad({}, event)
    \/ GcReturnVs
    \/ \E chain_event \in ChainEvents : GcBuild(chain_event)
    \/ GcStoreChain
    \/ GcReturnChain
    \/ \E keywords \in Keywords, run_event \in RunEvents : GcUse(keywords, run_event)
    \/ \E files \in ServerUploads : UpStartUpload(files)
    \/ UpStartRegenerate
    \/ UpResetVs
    \/ UpResetChain
    \/ UpClearCache
    \/ \E event \in RaceEvents : UpLoad({}, event)

SpecRace == InitRace /\ [][NextRace]_vars

\* ------------------------- two predict_keywords calls in parallel ----
\* Lines 99-103 and 316-319 of keyword_extractor.py and cleanup_cache, one
\* step per statement that reads or writes result_cache.  Nothing in the
\* module locks the dict.  The handlers of app.py call predict_keywords from
\* the event loop, one call at a time; the steps below are the calls of a
\* caller that runs them in two threads.
Writers == {1, 2}
OtherWriter(w) == 3 - w

WriterIdle == [pc |-> "idle", by |-> <<>>, value |-> None, keys_to_remove |-> <<>>,
               deleted |-> {}, failed |-> <<>>, raced |-> FALSE]

WriterBusy(wr) == wr.pc \in {"store", "check", "snapshot", "delete"}
WriterEnded(wr) == wr.pc \in {"done", "raised"}

CacheKeys(cache) == [i \in 1..Len(cache) |-> cache[i].key]

\* mutant: the slice takes the newest keys, as keys[MAX_CACHE_SIZE:] does
keys_to_remove_newest(cache) ==
    IF Len(cache) > MAX_CACHE_SIZE
    THEN SubSeq(CacheKeys(cache), MAX_CACHE_SIZE + 1, Len(cache))
    ELSE <<>>

\* line 32: list(result_cache.keys())[:-MAX_CACHE_SIZE]
keys_to_remove(cache) ==
    IF Len(cache) > MAX_CACHE_SIZE
    THEN SubSeq(CacheKeys(cache), 1, Len(cache) - MAX_CACHE_SIZE)
    ELSE <<>>

\* line 34: del result_cache[key], for a key that is present
DictDel(cache, key) == SelectSeq(cache, LAMBDA e : e.key # key)

\* a step of writer w: it runs alongside the other call when that one is
\* between its lookup and its end
WriterStep(w, wr) ==
    [writers EXCEPT ![w] = [wr EXCEPT !.raced = @ \/ WriterBusy(writers[OtherWriter(w)])]]

WriterOutputs == {<<"{", "}">>}

\* lines 99-312: the lookup misses, the model generates, the output is
\* post-processed
WStart(w, t, generated) ==
    \E post \in {postprocess(generated, t.schema)} :
        /\ writers[w].pc = "idle"
        /\ CacheIndex(result_cache, get_cache_key(t.text, t.schema, t.examples)) = 0
        /\ post.status = "returned"
        /\ writers' = WriterStep(w, [writers[w] EXCEPT !.pc = "store", !.by = <<t>>,
                                                       !.value = post.result])
        /\ UNCHANGED <<extractor_vars, pipeline_vars, key_vars, app_vars, prompt_vars,
                       gc, up, loaders, db_vars>>

\* line 318: result_cache[cache_key] = result
WStore(w) ==
    /\ writers[w].pc = "store"
    /\ \E t \in {writers[w].by[1]} :
        result_cache' = DictSet(result_cache, get_cache_key(t.text, t.schema, t.examples),
                                writers[w].value,
                                [text |-> t.text, schema |-> t.schema,
                                 examples |-> ExamplesOrEmpty(t.examples)])
    /\ writers' = WriterStep(w, [writers[w] EXCEPT !.pc = "check"])
    /\ UNCHANGED <<model, tokenizer, model_loading, last, last_op, calls_since_clear,
                   pipeline_vars, key_vars, app_vars, prompt_vars, gc, up, loaders, db_vars>>

\* line 30: if len(result_cache) > MAX_CACHE_SIZE
WCheck(w) ==
    /\ writers[w].pc = "check"
    /\ writers' = WriterStep(w, [writers[w] EXCEPT
                                    !.pc = IF Len(result_cache) > MAX_CACHE_SIZE
                                           THEN "snapshot" ELSE "done"])
    /\ UNCHANGED <<extractor_vars, pipeline_vars, key_vars, app_vars, prompt_vars,
                   gc, up, loaders, db_vars>>

\* line 32: the keys to remove are fixed here, from the dict as it is now
WSnapshot(w) ==
    /\ writers[w].pc = "snapshot"
    /\ writers' = WriterStep(w, [writers[w] EXCEPT
                                    !.pc = "delete",
                                    !.keys_to_remove = keys_to_remove(result_cache)])
    /\ UNCHANGED <<extractor_vars, pipeline_vars, key_vars, app_vars, prompt_vars,
                   gc, up, loaders, db_vars>>

\* lines 33-35: one turn of the loop; del raises KeyError for an absent key,
\* and the KeyError ends cleanup_cache and predict_keywords
WDelete(w) ==
    /\ writers[w].pc = "delete"
    /\ IF writers[w].keys_to_remove = <<>>
       THEN /\ writers' = WriterStep(w, [writers[w] EXCEPT !.pc = "done"])
            /\ UNCHANGED result_cache
       ELSE \E key \in {Head(writers[w].keys_to_remove)} :
            IF CacheIndex(result_cache, key) = 0
            THEN /\ writers' = WriterStep(w, [writers[w] EXCEPT !.pc = "raised",
                                                                !.failed = <<key>>])
                 /\ UNCHANGED result_cache
            ELSE /\ result_cache' = DictDel(result_cache, key)
                 /\ writers' = WriterStep(w, [writers[w] EXCEPT
                                    !.keys_to_remove = Tail(@),
                                    !.deleted = @ \cup {key}])
    /\ UNCHANGED <<model, tokenizer, model_loading, last, last_op, calls_since_clear,
                   pipeline_vars, key_vars, app_vars, prompt_vars, gc, up, loaders, db_vars>>

\* inputs with different keys, more of them than the cache holds
WriterTexts == {<<"a">>, <<"b">>, <<"c">>, <<"d">>, <<"e">>}
WriterTriples == [text : WriterTexts, schema : {<<"{", "}">>}, examples : {NoExamples}]

\* an entry as an earlier call stored it
StoredEntry(t, generated) ==
    [key |-> get_cache_key(t.text, t.schema, t.examples),
     value |-> postprocess(generated, t.schema).result,
     by |-> [text |-> t.text, schema |-> t.schema,
             examples |-> ExamplesOrEmpty(t.examples)]]

\* result_cache at capacity: MAX_CACHE_SIZE entries under different keys
FullCaches ==
    {c \in [1..MAX_CACHE_SIZE -> {StoredEntry(t, g) : t \in WriterTriples,
                                                      g \in WriterOutputs}] :
        \A i, j \in 1..MAX_CACHE_SIZE : i # j => c[i].key # c[j].key}

InitWriters ==
    /\ PipelineIdle /\ KeyIdle /\ AppIdle /\ PromptIdle /\ DbIdle
    /\ result_cache \in FullCaches
    /\ model = "loaded" /\ tokenizer = "loaded" /\ model_loading = FALSE
    /\ last = NoCall /\ last_op = "none" /\ calls_since_clear = -1
    /\ gc = GcIdle /\ up = UpIdle
    /\ writers = [w \in Writers |-> WriterIdle]
    /\ loaders = <<>>

NextWriters ==
    \E w \in Writers :
        \/ \E t \in WriterTriples, generated \in WriterOutputs : WStart(w, t, generated)
        \/ WStore(w)
        \/ WCheck(w)
        \/ WSnapshot(w)
        \/ WDelete(w)

SpecWriters == InitWriters /\ [][NextWriters]_vars

\* ------------------------- load_model_if_needed, callers in parallel ----
\* keyword_extractor.py 37-84, one statement per step.  In the application
\* the only caller is predict_keywords (line 109) and the handlers that reach
\* it run one after the other; the branch on _model_loading (lines 44-48)
\* only acts when callers run in threads, which is what this part models.
Loaders == {1, 2}

LoaderIdle == [pc |-> "idle", raising |-> FALSE, ended |-> "", found |-> <<>>]

\* the caller is between _model_loading = True (line 51) and the finally
\* clause (line 84): it is the one loading the model
Loading(ld) == ld.pc \in {"line56", "line62", "line64", "line84"}

LoaderAt(t, pc_) == loaders[t].pc = pc_

LoaderGoes(t, pc_) == loaders' = [loaders EXCEPT ![t].pc = pc_]

\* return: the call ends normally; found is what model and tokenizer are then
LoaderReturns(t) ==
    loaders' = [loaders EXCEPT ![t] = [pc |-> "ended", raising |-> FALSE,
                    ended |-> "returned", found |-> <<model, tokenizer>>]]

\* predict_keywords line 109: the call of load_model_if_needed
LCall(t) ==
    /\ loaders[t].pc \in {"idle", "ended"}
    /\ loaders' = [loaders EXCEPT ![t] = [LoaderIdle EXCEPT !.pc = "line41"]]
    /\ UNCHANGED <<model, tokenizer, model_loading>>

\* lines 41-42: if model is not None and tokenizer is not None: return
LCheckLoaded(t) ==
    /\ LoaderAt(t, "line41")
    /\ IF model # "None" /\ tokenizer # "None"
       THEN LoaderReturns(t)
       ELSE LoaderGoes(t, "line44")
    /\ UNCHANGED <<model, tokenizer, model_loading>>

\* line 44: if _model_loading
LCheckFlag(t) ==
    /\ LoaderAt(t, "line44")
    /\ IF model_loading THEN LoaderGoes(t, "line46") ELSE LoaderGoes(t, "line51")
    /\ UNCHANGED <<model, tokenizer, model_loading>>

\* lines 46-48: while _model_loading: time.sleep(0.1), then return; a turn
\* of the loop with the flag still set changes nothing
LWait(t) ==
    /\ LoaderAt(t, "line46")
    /\ ~model_loading
    /\ LoaderReturns(t)
    /\ UNCHANGED <<model, tokenizer, model_loading>>

\* line 51: _model_loading = True
LSetFlag(t) ==
    /\ LoaderAt(t, "line51")
    /\ model_loading' = TRUE
    /\ LoaderGoes(t, "line56")
    /\ UNCHANGED <<model, tokenizer>>

\* lines 56-61: model = AutoModelForCausalLM.from_pretrained(...)
LLoadModel(t, ok) ==
    /\ LoaderAt(t, "line56")
    /\ IF ok
       THEN /\ model' = "loaded"
            /\ LoaderGoes(t, "line62")
       ELSE /\ model' = model
            /\ loaders' = [loaders EXCEPT ![t].pc = "line84", ![t].raising = TRUE]
    /\ UNCHANGED <<tokenizer, model_loading>>

\* line 62: tokenizer = AutoTokenizer.from_pretrained(...)
LLoadTokenizer(t, ok) ==
    /\ LoaderAt(t, "line62")
    /\ IF ok
       THEN /\ tokenizer' = "loaded"
            /\ LoaderGoes(t, "line64")
       ELSE /\ tokenizer' = tokenizer
            /\ loaders' = [loaders EXCEPT ![t].pc = "line84", ![t].raising = TRUE]
    /\ UNCHANGED <<model, model_loading>>

\* lines 64-78: model.to(device), model.eval(), the pad token; lines 80-82
\* re-raise what any of these raised
LSetup(t, ok) ==
    /\ LoaderAt(t, "line64")
    /\ loaders' = [loaders EXCEPT ![t].pc = "line84", ![t].raising = ~ok]
    /\ UNCHANGED <<model, tokenizer, model_loading>>

\* lines 83-84: finally: _model_loading = False, then the function returns
\* or the exception goes on to the caller
LFinally(t) ==
    /\ LoaderAt(t, "line84")
    /\ model_loading' = FALSE
    /\ loaders' = [loaders EXCEPT ![t] = [pc |-> "ended", raising |-> FALSE,
                       ended |-> IF loaders[t].raising THEN "raised" ELSE "returned",
                       found |-> <<model, tokenizer>>]]
    /\ UNCHANGED <<model, tokenizer>>

LoaderFrame ==
    UNCHANGED <<result_cache, last, last_op, calls_since_clear, pipeline_vars, key_vars,
                app_vars, prompt_vars, gc, up, writers, db_vars>>

InitLoaders ==
    /\ ExtractorIdle /\ PipelineIdle /\ KeyIdle /\ AppIdle /\ PromptIdle /\ DbIdle
    /\ gc = GcIdle /\ up = UpIdle /\ writers = <<>>
    /\ loaders = [t \in Loaders |-> LoaderIdle]

NextLoaders ==
    \E t \in Loaders :
        \/ LCall(t) /\ LoaderFrame
        \/ LCheckLoaded(t) /\ LoaderFrame
        \/ LCheckFlag(t) /\ LoaderFrame
        \/ LWait(t) /\ LoaderFrame
        \/ LSetFlag(t) /\ LoaderFrame
        \/ \E ok \in BOOLEAN : LLoadModel(t, ok) /\ LoaderFrame
        \/ \E ok \in BOOLEAN : LLoadTokenizer(t, ok) /\ LoaderFrame
        \/ \E ok \in BOOLEAN : LSetup(t, ok) /\ LoaderFrame
        \/ LFinally(t) /\ LoaderFrame

SpecLoaders == InitLoaders /\ [][NextLoaders]_vars

\* ------------------------------------------- HR_part/Job_Database.py ----
\* Values of a parsed job: a str, an int, null, a list, a dict (a sequence
\* of <<key, value>>).  BigInt is an int outside the signed 64-bit range,
\* which json.loads yields and sqlite3 refuses to bind.
JStr(chars) == <<"str", chars>>
JInt(n) == <<"int", n>>
BigInt == <<"bigint">>
JDict(items) == <<"dict", items>>
JList(elements) == <<"list", elements>>

Digits == <<"0", "1", "2", "3", "4", "5", "6", "7", "8", "9">>
RECURSIVE IntText(_)
IntText(n) == IF n < 10 THEN <<Digits[n + 1]>> ELSE IntText(n \div 10) \o <<Digits[(n % 10) + 1]>>

IsDigit(c) == \E d \in 1..10 : Digits[d] = c
RECURSIVE TextInt(_, _)
TextInt(chars, acc) ==
    IF chars = <<>> THEN acc
    ELSE TextInt(Tail(chars), 10 * acc + ((CHOOSE d \in 1..10 : Digits[d] = Head(chars)) - 1))
LooksLikeInt(chars) == chars # <<>> /\ \A i \in 1..Len(chars) : IsDigit(chars[i])

RECURSIVE DbDump(_)
RECURSIVE DbDumpItems(_, _)
RECURSIVE DbDumpElements(_, _)
\* json.dumps(v) with the default separators
DbDump(v) ==
    IF v[1] = "str" THEN <<"\"">> \o v[2] \o <<"\"">>
    ELSE IF v[1] = "int" THEN IntText(v[2])
    ELSE IF v[1] = "null" THEN <<"n", "u", "l", "l">>
    ELSE IF v[1] = "dict" THEN <<"{">> \o DbDumpItems(v[2], 1) \o <<"}">>
    ELSE <<"[">> \o DbDumpElements(v[2], 1) \o <<"]">>
DbDumpItems(items, i) ==
    IF i > Len(items) THEN <<>>
    ELSE <<"\"">> \o items[i][1] \o <<"\"", ":", " ">> \o DbDump(items[i][2])
         \o (IF i = Len(items) THEN <<>> ELSE <<",", " ">>) \o DbDumpItems(items, i + 1)
DbDumpElements(es, i) ==
    IF i > Len(es) THEN <<>>
    ELSE DbDump(es[i]) \o (IF i = Len(es) THEN <<>> ELSE <<",", " ">>)
         \o DbDumpElements(es, i + 1)

\* lines 16-34: the columns of table jobs and their declared types
ColumnType ==
    [id |-> "INTEGER", job_title |-> "TEXT", seniority |-> "TEXT",
     experience_years_min |-> "INTEGER", experience_years_max |-> "INTEGER",
     location |-> "TEXT", employment_type |-> "TEXT", department |-> "TEXT",
     company |-> "TEXT", team |-> "TEXT", responsibilities |-> "TEXT",
     requirements |-> "TEXT", compensation |-> "TEXT", application_process |-> "TEXT",
     hidden_expectations |-> "TEXT"]

\* line 82: the column names without id
columns == DOMAIN ColumnType \ {"id"}

\* cells of a row
SqlNull == <<"NULL">>
SqlText(chars) == <<"TEXT", chars>>
SqlInteger(n) == <<"INTEGER", n>>

\* lines 84-89: a dict or a list becomes its JSON text
flatten(v) == IF v[1] \in {"dict", "list"} THEN JStr(DbDump(v)) ELSE v

\* what sqlite3 stores for a bound value in a column of the given type: a
\* TEXT column turns a number into text, an INTEGER column turns text that
\* reads as an integer into the integer
bind(v, type) ==
    IF v[1] = "null" THEN SqlNull
    ELSE IF v[1] = "int"
         THEN IF type = "TEXT" THEN SqlText(IntText(v[2])) ELSE SqlInteger(v[2])
    ELSE IF type = "INTEGER" /\ LooksLikeInt(v[2]) THEN SqlInteger(TextInt(v[2], 0))
    ELSE SqlText(v[2])

\* AUTOINCREMENT: one more than the largest id the table has had; no row is
\* ever deleted, so the newest row has it
next_id(rows) == IF rows = <<>> THEN 1 ELSE rows[Len(rows)].id + 1

\* mutant: INSERT OR REPLACE on the newest row
insert_row_replace(rows, cells) ==
    IF rows = <<>> THEN <<[id |-> 1, cells |-> cells]>>
    ELSE [rows EXCEPT ![Len(rows)] = [id |-> rows[Len(rows)].id, cells |-> cells]]

\* lines 98-100: INSERT INTO jobs (...) VALUES (...); columns that the
\* statement does not name are NULL
insert_row(rows, cells) == Append(rows, [id |-> next_id(rows), cells |-> cells])

\* lines 74-106.  self_job is self.job; line 75 refuses None and the empty dict.
populate_db_result(self_job, rows) ==
    IF self_job.is_none \/ DOMAIN self_job.data = {}
    THEN [raised |-> "ValueError", rows |-> rows]
    ELSE LET flat == [k \in DOMAIN self_job.data |-> flatten(self_job.data[k])]
             valid_keys == {k \in DOMAIN flat : k \in columns}
         IN  IF valid_keys = {} THEN [raised |-> "", rows |-> rows]
             ELSE IF \E k \in valid_keys : flat[k] = BigInt
                  THEN [raised |-> "OverflowError", rows |-> rows]
             ELSE [raised |-> "",
                   rows |-> insert_row(rows,
                                [c \in columns |->
                                    IF c \in valid_keys THEN bind(flat[c], ColumnType[c])
                                    ELSE SqlNull])]

\* lines 8-37: a new JobDatabase on the same file; the table and its rows stay
JobDatabase_init ==
    /\ job' = NoJob
    /\ db_call' = [op |-> "__init__", raised |-> ""]
    /\ UNCHANGED <<jobs, extractor_vars, pipeline_vars, key_vars, app_vars, prompt_vars,
                   thread_vars>>

\* The values a reply may hold under each key: id is the column that line 82
\* leaves out, salary is no column.
JobValues ==
    [experience_years_min |-> {JInt(3), JStr(<<"3">>), <<"null">>, BigInt},
     requirements |-> {JList(<<JStr(<<"a">>)>>), JDict(<< <<<<"k">>, JInt(3)>> >>)},
     id |-> {JInt(7)},
     salary |-> {JStr(<<"a">>)}]

JobDicts == UNION {{j \in [ks -> UNION {JobValues[k] : k \in ks}] :
                        \A k \in ks : j[k] \in JobValues[k]} :
                   ks \in SUBSET DOMAIN JobValues}

Replies == {"http_error", "no_json", "invalid_json", "json"}

\* lines 39-72: the reply of the model; self.job changes only when the reply
\* holds a JSON object that parses
generate_json(reply, data) ==
    /\ job' = IF reply = "json" THEN Job(data) ELSE job
    /\ db_call' = [op |-> "generate_json",
                   raised |-> IF reply = "http_error" THEN "HTTPError"
                              ELSE IF reply = "no_json" THEN "ValueError" ELSE ""]
    /\ UNCHANGED <<jobs, extractor_vars, pipeline_vars, key_vars, app_vars, prompt_vars,
                   thread_vars>>

populate_db ==
    /\ Len(jobs) < MaxRows
    /\ \E r \in {populate_db_result(job, jobs)} :
        /\ jobs' = r.rows
        /\ db_call' = [op |-> "populate_db", raised |-> r.raised]
    /\ UNCHANGED <<job, extractor_vars, pipeline_vars, key_vars, app_vars, prompt_vars,
                   thread_vars>>

InitDb ==
    /\ ExtractorIdle /\ PipelineIdle /\ KeyIdle /\ AppIdle /\ PromptIdle /\ ThreadsIdle
    /\ DbIdle

NextDb ==
    \/ JobDatabase_init
    \/ \E reply \in Replies :
        \E data \in IF reply = "json" THEN JobDicts ELSE {<<>>} :
            generate_json(reply, data)
    \/ populate_db

SpecDb == InitDb /\ [][NextDb]_vars

\* ----------------------------------------- properties of the cache ----
LastKey == get_cache_key(last.text, last.schema, last.examples)
LastInput == [text |-> last.text, schema |-> last.schema,
              examples |-> ExamplesOrEmpty(last.examples)]
Called == last_op = "predict_keywords"
Stored == Called /\ ~last.hit /\ last.status = "returned"
Min(a, b) == IF a < b THEN a ELSE b

\* C1: after every predict_keywords call, in any sequence of predict_keywords
\* and clear_cache calls, result_cache holds at most MAX_CACHE_SIZE entries.
C1_CacheBounded == Len(result_cache) <= MAX_CACHE_SIZE

\* a result was stored into a full cache and the cache is still at capacity
C1_Witness ==
    /\ Stored
    /\ last.cached_before = MAX_CACHE_SIZE
    /\ Len(result_cache) = MAX_CACHE_SIZE

\* C2 as stated: a call answered from the cache returns the string that a
\* cache-miss call with the same (text, schema, examples) returned and stored.
C2_AsStated ==
    (Called /\ last.hit) =>
        \E i \in 1..Len(result_cache) :
            /\ result_cache[i].key = LastKey
            /\ result_cache[i].by = LastInput
            /\ result_cache[i].value = last.result

\* C3 as stated: the first predict_keywords call after clear_cache is a cache
\* miss and the next call with the identical input is a cache hit.
C3Step(first_must_return) ==
    last_op' = "predict_keywords" =>
        /\ calls_since_clear = 0 => ~last'.hit
        /\ (/\ calls_since_clear = 1 /\ calls_since_clear' = 2
            /\ last.nth = 1
            /\ first_must_return => last.status = "returned"
            /\ last'.text = last.text
            /\ last'.schema = last.schema
            /\ last'.examples = last.examples)
              => last'.hit

C6_HitInvokesNoModel ==
    [][(last_op' = "predict_keywords" /\ last'.hit)
          => /\ last'.loads = 0
             /\ last'.gens = 0
             /\ model' = model
             /\ tokenizer' = tokenizer]_vars

\* a call was answered from the cache
C6_Witness == Called /\ last.hit /\ last.result # None

\* C7 as stated: a call that misses the cache invokes generation exactly once.
C7_AsStated == (Called /\ ~last.hit) => last.gens = 1

\* C7, amended: a call that misses the cache invokes generation at most once,
\* whatever the model output is, and exactly once unless loading the model
\* fails before generation is reached.
C7_OneGeneration ==
    (Called /\ ~last.hit) => last.gens = (IF last.failed_at = "load" THEN 0 ELSE 1)

\* the output was no JSON, the schema shape came back, one generation ran
C7_Witness ==
    /\ Stored
    /\ last.steps = <<"extract", "parse", "repair", "schema">>
    /\ last.gens = 1

C9_AsStated ==
    pc = "keyed" =>
        ((\/ key_in[1].text # key_in[2].text
          \/ key_in[1].schema # key_in[2].schema
          \/ ExamplesOrEmpty(key_in[1].examples) # ExamplesOrEmpty(key_in[2].examples))
            => key_out[1] # key_out[2])

\* ---------------------------------------- properties of the pipeline ----
ExtractionDone == pc \in {"extracted", "returned", "raised"}
ValidationDone == pc \in {"returned", "raised"}

\* number of "{" minus number of "}" among the first n characters of s
RECURSIVE BraceDepth(_, _)
BraceDepth(s, n) ==
    IF n = 0 THEN 0
    ELSE BraceDepth(s, n - 1)
         + (IF s[n] = "{" THEN 1 ELSE IF s[n] = "}" THEN -1 ELSE 0)

\* s runs from a "{" to the "}" that closes it
IsMatched(s) ==
    /\ Len(s) >= 2
    /\ s[1] = "{"
    /\ BraceDepth(s, Len(s)) = 0
    /\ \A n \in 1..(Len(s) - 1) : BraceDepth(s, n) > 0

\* the substrings of s that run from a "{" to its matching "}"
MatchedSubstrings(s) ==
    {SubSeq(s, i, j) : <<i, j>> \in
        {ij \in (1..Len(s)) \X (1..Len(s)) : ij[1] < ij[2] /\ IsMatched(SubSeq(s, ij[1], ij[2]))}}

FirstBrace(s) ==
    IF Contains(s, "{")
    THEN CHOOSE i \in 1..Len(s) : s[i] = "{" /\ \A j \in 1..(i - 1) : s[j] # "{"
    ELSE 0

\* C4 as stated: a raw output that is not valid JSON but contains a
\* brace-balanced {...} substring gets that substring as its candidate result.
C4_AsStated ==
    (ExtractionDone /\ ~IsJson(output) /\ MatchedSubstrings(output) # {})
        => result \in MatchedSubstrings(output)

\* C4, amended: a raw output that is not valid JSON, carries no <|output|>
\* marker and whose first "{" has a matching "}" gets as candidate result the
\* substring from that first "{" to its matching "}".
C4_FirstBraceSelected ==
    (/\ ExtractionDone
     /\ ~IsJson(output)
     /\ ~Contains(output, "O")
     /\ \E m \in MatchedSubstrings(output) :
            m = SubSeq(output, FirstBrace(output), FirstBrace(output) + Len(m) - 1))
        => /\ IsMatched(result)
           /\ result = SubSeq(output, FirstBrace(output), FirstBrace(output) + Len(result) - 1)

\* the balanced substring was cut out of surrounding text
C4_Witness ==
    /\ pc = "extracted"
    /\ ~IsJson(output)
    /\ ~Contains(output, "O")
    /\ IsMatched(result)
    /\ Len(result) < Len(Strip(output))

\* C10 as stated: the strict parse of the output comes first, so an output
\* that is valid JSON is returned as parsed and brace matching plays no part.
C10_AsStated ==
    (pc = "returned" /\ IsJson(output))
        => outcome.result = json_dumps(json_loads(output).val)

IsPrefix(a, b) == Len(a) <= Len(b) /\ a = SubSeq(b, 1, Len(a))
InSteps(step) == \E i \in 1..Len(outcome.steps) : outcome.steps[i] = step

\* C10, amended: marker / brace-matching extraction is applied first, to every
\* output; the strict parse is attempted on the extracted candidate; the
\* trailing-comma repair is tried only if that parse fails; the schema shape
\* is used only if the repair does not parse either.
C10_StageOrder ==
    ValidationDone =>
        /\ outcome.steps # <<>>
        /\ IsPrefix(outcome.steps, <<"parse", "repair", "schema">>)
        /\ InSteps("repair") <=> ~IsJson(result)
        /\ InSteps("schema") <=> (~IsJson(result) /\ ~IsJson(fix_trailing_commas(result)))
        /\ (pc = "returned" /\ ~InSteps("repair"))
              => outcome.result = json_dumps(json_loads(result).val)
        /\ (pc = "returned" /\ InSteps("repair") /\ ~InSteps("schema"))
              => outcome.result = json_dumps(json_loads(fix_trailing_commas(result)).val)
        /\ (pc = "returned" /\ InSteps("schema"))
              => outcome.result = json_dumps(json_loads(schema_arg).val)

\* all three fall-backs were walked through and the schema shape came back
C10_Witness ==
    /\ pc = "returned"
    /\ outcome.steps = <<"parse", "repair", "schema">>
    /\ result # <<>>

\* C11 as stated: on a miss, when neither the candidate result nor its
\* trailing-comma repair parses, the call returns the schema shape and does
\* not raise, whatever schema string was passed.
C11_AsStated ==
    (/\ ValidationDone
     /\ ~IsJson(result)
     /\ ~IsJson(fix_trailing_commas(result)))
        => pc = "returned"

\* --------------------------------- properties of the text preparation ----
\* C12: for every input text, the resume text placed in the prompt has at
\* most MAX_TEXT_LENGTH characters.
C12_PromptTextBounded ==
    pc \in {"truncated", "placed"} => Len(prompt_text) <= MAX_TEXT_LENGTH

\* a text over the budget was cut and fills the budget exactly
C12_Witness ==
    /\ pc = "placed"
    /\ Len(text_arg) > MAX_TEXT_LENGTH
    /\ Len(prompt_text) = MAX_TEXT_LENGTH

\* ------------------------------------------ properties of the upload ----
\* C5 as stated: upload_resumes never returns a success response
\* (vector_store_created = true) while the vector index is absent or empty;
\* an upload that leaves no PDF to index reports an error.
C5_AsStated ==
    (response.endpoint = "upload_resumes" /\ response.vector_store_created)
        => ~vector_store.is_none /\ vector_store.docs # {}

\* C13 as stated: a PDF whose load or split raises is skipped and the others
\* are still indexed; load_resumes raises only when the embedding / index
\* build step raises.
C13_AsStated ==
    load_call.called =>
        /\ load_call.raised => load_call.failed_at \in {"embeddings", "index_build"}
        /\ (~load_call.raised /\ load_call.pdf_files # {})
              => load_call.store.docs = load_call.pdf_files \ load_call.unreadable

\* C13, amended: a PDF whose load or split raises is skipped and the chunks of
\* all other PDFs are still indexed; load_resumes raises only when creating
\* the embeddings raises, the index build raises (as it does when every PDF
\* was skipped) or writing vector_store.json raises.
C13_SkipAndFail ==
    load_call.called =>
        /\ load_call.raised
              => load_call.failed_at \in {"embeddings", "index_build", "sidecar"}
        /\ (load_call.raised /\ load_call.failed_at = "index_build")
              => load_call.pdf_files # {}
        /\ (~load_call.raised /\ load_call.pdf_files # {})
              => /\ ~load_call.store.is_none
                 /\ load_call.store.docs = load_call.pdf_files \ load_call.unreadable
                 /\ load_call.store.docs # {}

\* one PDF was skipped and the other one was indexed
C13_Witness ==
    /\ load_call.called
    /\ ~load_call.raised
    /\ load_call.unreadable # {}
    /\ load_call.store.docs # {}
    /\ load_call.store.docs = load_call.pdf_files \ load_call.unreadable
    /\ vector_store = load_call.store

\* C14 as stated: every load_resumes invocation overwrites vector_store.json
\* with the chunk records of that invocation, so after the call the file
\* never holds chunks produced by an earlier load.  Read for the invocations
\* that return: one that raises has no chunk records to write.
C14_AsStated ==
    (load_call.called /\ ~load_call.raised /\ sidecar.exists)
        => /\ ~load_call.store.is_none
           /\ sidecar.docs = load_call.store.docs

\* ---------------------------------------- properties of the requests ----
\* C15: assess_candidate invokes the chain exactly once per call and, when
\* that invocation fails, propagates the failure to its caller without a
\* retry and without a partial result; the endpoint answers it with 500.
C15_OneRunNoRetry ==
    assess_call.called =>
        /\ assess_call.runs = 1
        /\ assess_call.raised <=> assess_call.failed
        /\ assess_call.raised => (assess_call.result = None /\ response.status = 500)
        /\ ~assess_call.raised => (assess_call.result # None /\ response.status = 200)

\* the chain failed, assess_candidate raised after its one invocation
C15_Witness ==
    /\ assess_call.called
    /\ assess_call.failed
    /\ assess_call.raised
    /\ assess_call.runs = 1
    /\ response.status = 500

\* C16: with requests served one after the other, if chain is set then
\* vector_store is set and the chain was built from that very index, and a
\* request that assesses uses a chain over the current index.
C16_ChainOverCurrentIndex ==
    /\ ~chain.is_none => (~vector_store.is_none /\ chain.over = vector_store)
    /\ assess_call.called
          => (~chain.is_none /\ assess_call.over = vector_store /\ ~vector_store.is_none)

\* an index was replaced and a later request used a chain over the new one
C16_Witness ==
    /\ assess_call.called
    /\ ~assess_call.raised
    /\ assess_call.over.id > 1
    /\ chain.over.id = vector_store.id

\* C19: a stored entry keeps its value, and it leaves the cache only when a
\* storing miss evicts the oldest entries of a full cache or when the cache
\* is cleared as a whole; upload, status, cache-stats and a cache hit leave
\* the cache as it is.
C19_EntriesOnlyEvictedOrCleared ==
    [][LET op      == response'.endpoint
           stored  == op = "extract_keywords" /\ ~last'.hit /\ last'.status = "returned"
           cleared == op = "clear_keyword_cache" /\ result_cache' = <<>>
       IN  /\ op \in {"upload_resumes", "get_status", "get_cache_statistics"}
                 => result_cache' = result_cache
           /\ (op = "extract_keywords" /\ last'.hit) => result_cache' = result_cache
           /\ result_cache' # result_cache => (stored \/ cleared)
           /\ \A i \in 1..Len(result_cache) :
                 \/ \E j \in 1..Len(result_cache') :
                        /\ result_cache'[j].key = result_cache[i].key
                        /\ result_cache'[j].value = result_cache[i].value
                 \/ cleared
                 \/ /\ stored
                    /\ Len(result_cache) = MAX_CACHE_SIZE
                    /\ i = 1]_vars

\* an upload was served while the cache was full and the cache is still full
C19_Witness ==
    /\ response.endpoint = "upload_resumes"
    /\ response.status = 200
    /\ Len(result_cache) = MAX_CACHE_SIZE

\* ------------------------------ properties of the interleaved requests ----
Quiescent == gc.pc = "idle" /\ up.pc = "idle"
StaleChain == ~chain.is_none /\ (vector_store.is_none \/ chain.over # vector_store)

\* C17: when an upload or regenerate request is interleaved with a
\* get_chain call, the process can retain, or a request can use, a chain
\* built from an index that is not the current vector_store (or a chain with
\* vector_store unset); such a chain arises in no other way.
C17_StaleOnlyByInterleaving ==
    /\ (Quiescent /\ StaleChain) => up.raced
    /\ gc.stale_use => up.raced

\* both have finished and the process keeps a chain over the index that the
\* upload has replaced
C17_Witness ==
    /\ Quiescent
    /\ up.raced
    /\ ~chain.is_none
    /\ ~vector_store.is_none
    /\ chain.over.id < vector_store.id

\* ------------------------------------- properties of parallel writers ----
WritersEnded == \A w \in Writers : WriterEnded(writers[w])
WritersRaced == \E w \in Writers : writers[w].raced
WriterKey(w) ==
    get_cache_key(writers[w].by[1].text, writers[w].by[1].schema,
                  writers[w].by[1].examples)

\* C18: two predict_keywords cache-miss calls that interleave their store and
\* cleanup steps on a full cache can break the eviction: a del of a key the
\* other call has deleted raises KeyError, or the cache ends with a number of
\* entries other than MAX_CACHE_SIZE.  The witness is such an end; the
\* formula says that this is the work of the interleaving alone: a KeyError
\* is always for a key the other call deleted while the two overlapped, and
\* two calls that do not overlap end with MAX_CACHE_SIZE entries, their own
\* two among them.
C18_BrokenOnlyByInterleaving ==
    /\ \A w \in Writers :
        writers[w].pc = "raised" =>
            /\ WritersRaced
            /\ writers[w].failed[1] \in writers[OtherWriter(w)].deleted
    /\ (WritersEnded /\ ~WritersRaced) =>
            /\ Len(result_cache) = MAX_CACHE_SIZE
            /\ \A w \in Writers : CacheIndex(result_cache, WriterKey(w)) # 0
    /\ (WritersEnded /\ Len(result_cache) # MAX_CACHE_SIZE) => WritersRaced

C18_Witness ==
    /\ WritersEnded
    /\ \E w \in Writers :
        /\ writers[w].pc = "raised"
        /\ writers[w].failed[1] \in writers[OtherWriter(w)].deleted
    /\ Len(result_cache) > MAX_CACHE_SIZE

\* ------------------------------------------ properties of the database ----
IsNested(v) == v[1] \in {"dict", "list"}
JobKeys == IF job.is_none THEN {} ELSE DOMAIN job.data
PopulateReturned == db_call.op = "populate_db" /\ db_call.raised = ""

C21_AsStated ==
    (/\ response.endpoint \in {"analyze_resumes", "debug_keyword_extraction",
                               "regenerate_vector_store"}
     /\ response.first_raised = 400)
        => response.status = 400

\* ---------------------------------- properties of the text truncation ----
\* the end of the longest run of leading whole sentences, each with its
\* ". ", that fits in the budget: 0 when not even the first sentence fits
RunEnd(text) ==
    LET ends == {k \in 2..MAX_TEXT_LENGTH :
                    k <= Len(text) /\ text[k - 1] = "." /\ text[k] = " "}
    IN  IF ends = {} THEN 0 ELSE CHOOSE k \in ends : \A n \in ends : n <= k
DotOrSpace(c) == c = "." \/ c = " "

\* C22: for a text longer than MAX_TEXT_LENGTH, when the longest run of
\* leading whole sentences that fits in the budget has at least 80% of the
\* budget, the text kept ends at that sentence boundary: it is the run
\* without the full stops and spaces at its end.  Otherwise the text kept is
\* the first MAX_TEXT_LENGTH characters.
C22_SentenceBoundaryOrHardCut ==
    (pc = "truncated" /\ Len(text_arg) > MAX_TEXT_LENGTH) =>
        LET k == RunEnd(text_arg)
        IN  IF 10 * k >= 8 * MAX_TEXT_LENGTH
            THEN /\ IsPrefix(prompt_text, SubSeq(text_arg, 1, k))
                 /\ \A i \in (Len(prompt_text) + 1)..k : DotOrSpace(text_arg[i])
                 /\ prompt_text # <<>> => ~DotOrSpace(prompt_text[Len(prompt_text)])
            ELSE prompt_text = SubSeq(text_arg, 1, MAX_TEXT_LENGTH)

\* two sentences fit and fill the budget; the text kept ends after the second
C22_Witness ==
    /\ pc = "truncated"
    /\ Len(text_arg) > MAX_TEXT_LENGTH
    /\ RunEnd(text_arg) = MAX_TEXT_LENGTH
    /\ \E i \in 2..(MAX_TEXT_LENGTH - 2) : text_arg[i - 1] = "." /\ text_arg[i] = " "
    /\ Len(prompt_text) = MAX_TEXT_LENGTH - 2

\* C27: for every input text, the text kept after truncation, before the
\* final strip, is a prefix of the original text.
C27_TruncationKeepsPrefix ==
    pc = "truncated" => IsPrefix(prompt_text, text_arg)

\* a text that starts with a full stop or a space and was cut at a sentence
\* boundary
C27_Witness ==
    /\ pc = "truncated"
    /\ Len(text_arg) > MAX_TEXT_LENGTH
    /\ DotOrSpace(text_arg[1])
    /\ 10 * RunEnd(text_arg) >= 8 * MAX_TEXT_LENGTH
    /\ prompt_text # <<>>
    /\ Len(prompt_text) < RunEnd(text_arg)

\* ------------------------------------- properties of the stored results ----
\* a string that json.dumps(..., indent=2) produces
IsDumped(s) == IsJson(s) /\ s = json_dumps(json_loads(s).val)

\* C23: every value stored in result_cache, and every string that
\* predict_keywords returns, is a valid JSON document, the output of
\* json.dumps; the raw model output is never cached or returned.
C23_ResultsAreDumpedJson ==
    /\ \A i \in 1..Len(result_cache) : IsDumped(result_cache[i].value)
    /\ (Called /\ last.status = "returned") => IsDumped(last.result)

\* a call whose model output was no JSON returned and stored the schema shape
C23_Witness ==
    /\ Stored
    /\ last.steps = <<"extract", "parse", "repair", "schema">>
    /\ CacheIndex(result_cache, LastKey) # 0
    /\ result_cache[CacheIndex(result_cache, LastKey)].value = last.result
    /\ IsDumped(last.result)

\* ------------------------------------ properties of a rejected upload ----
\* the request that ends this step was refused while its files were checked
\* and saved: a file that is no PDF (400) or a save that failed (500)
UploadRejected ==
    /\ response'.endpoint = "upload_resumes"
    /\ response'.status # 200
    /\ ~load_call'.called

\* C24 as stated: when upload_resumes rejects a request, the PDFs stored
\* before the request, vector_store and chain are all as they were before
\* the request, so that the index and the chain never refer to resumes that
\* were deleted from the data folder.
C24_AsStated ==
    [][UploadRejected =>
          /\ data_folder' = data_folder
          /\ vector_store' = vector_store
          /\ chain' = chain]_vars

\* -------------------------------------- properties of a failed call ----
\* C25: a predict_keywords call that raises (the model load fails, the
\* generation fails, or validating the result fails) leaves result_cache as
\* it was before the call: no entry is added, changed or evicted.
C25_RaiseLeavesCache ==
    [][(last_op' = "predict_keywords" /\ last'.status = "raised")
          => result_cache' = result_cache]_vars

\* a call failed while validating its result, with the cache full
C25_Witness ==
    /\ Called
    /\ last.status = "raised"
    /\ last.failed_at = "postprocess"
    /\ Len(result_cache) = MAX_CACHE_SIZE
    /\ last.cached_before = MAX_CACHE_SIZE

\* ------------------------------ properties of the validation, continued ----
\* C26 as stated: given a schema that is valid JSON and a generation that
\* succeeds, predict_keywords returns normally for every model output text,
\* also for output that is valid JSON but no JSON object.
C26_AsStated ==
    (ValidationDone /\ IsJson(schema_arg)) => pc = "returned"

\* ------------------------------------ properties of the dependencies ----
\* C30 as stated: get_vector_store never returns an unset (None) index: it
\* returns a built index or raises HTTP 400, so that get_chain never builds a
\* chain over a missing index.  In a request to an endpoint that depends on
\* get_chain, load_resumes is called by get_vector_store alone, which
\* returns what load_resumes returned.
C30_AsStated ==
    (/\ response.endpoint \in {"assess_candidate", "analyze_resumes"}
     /\ load_call.called
     /\ ~load_call.raised)
        => ~load_call.store.is_none

\* --------------------------------- properties of a successful upload ----
\* C29 as stated: after a successful upload_resumes, the files_processed
\* count in the response equals the number of PDF files present in the data
\* folder, and those files are exactly the ones uploaded in this request.
\* A PDF file is one that the upload accepts as a PDF.
C29_AsStated ==
    (response.endpoint = "upload_resumes" /\ response.status = 200) =>
        LET pdfs == {f \in data_folder : is_pdf_upload(f)}
        IN  /\ response.files_processed = Cardinality(pdfs)
            /\ pdfs = response.saved


\* ---------------------------------- properties of load_model_if_needed ----
\* C28 (as stated): a call of load_model_if_needed that returned normally
\* found model and tokenizer both set, with callers running in parallel; and
\* at most one caller is loading the model at any time.
C28_AsStated ==
    /\ \A t \in DOMAIN loaders :
           loaders[t].ended = "returned" =>
               loaders[t].found[1] # "None" /\ loaders[t].found[2] # "None"
    /\ Cardinality({t \in DOMAIN loaders : Loading(loaders[t])}) <= 1

====
